---- MODULE Spec2Model ----
(***************************************************************************)
(* Job orchestration engine of the video classification service: the      *)
(* SQLite job store, the worker claim loop (video_service/workers/        *)
(* worker.py), the periodic stale-job watchdog (video_service/core/       *)
(* stale_recovery.py) and the startup sweep (video_service/app/main.py).  *)
(*                                                                         *)
(* Every SQL statement that runs in its own transaction is one atomic     *)
(* step.  A transaction that spans several statements holds the store's   *)
(* write lock from its first write to its commit; the lock is the         *)
(* variable "lock".  Reads (SELECT outside a write transaction) take no   *)
(* lock: the store runs in WAL mode (database.py:38).                     *)
(*                                                                         *)
(* updated_at is kept as the row's age, now - updated_at, in clock ticks, *)
(* saturating just above the stale timeout: the code only ever compares   *)
(* updated_at with now - timeout.  CURRENT_TIMESTAMP is age 0.            *)
(***************************************************************************)
EXTENDS Integers, Sequences, FiniteSets, TLC

\* ---------------------------------------------------------------- bounds
Jobs      == {"j1", "j2"}
Workers   == {"w1", "w2"}
Watchdogs == {"d1", "d2"}

MaxCallbacks == 1   \* stage callbacks of one pipeline run
MaxFaults    == 1   \* worker deaths and raising terminal writes
MaxSweeps    == 1   \* restarts of the API process
\* length of the window events[-N:] a row keeps of its events list; the
\* code keeps N = 400 (worker.py:202, stale_recovery.py:48), the model a
\* window short enough for a list to outgrow it
MaxEvents    == 4

\* ------------------------------------------------------ program constants
STALE_TIMEOUT_SECONDS == 1     \* stale_recovery.py:28, in clock ticks
ERROR_CAP             == 4096  \* worker.py:230, error[:4096]
\* lengths of the error text of a failing pipeline
ErrorLens == {5, ERROR_CAP + 1}

Free  == "free"
NoJob == "none"
\* the value held for a function that has not returned yet
NoReturn == -1

WatchdogDetail == "recovered by watchdog (stale timeout)"
RestartDetail  == "recovered after restart"
RestartEvent   == "recovered after process restart"

Terminal == {"completed", "failed"}

\* node names and job ids are strings, kept as sequences of characters
DefaultName == <<"n", "-", "a">>   \* cluster.py:13, "node-a"
\* the node names of the configured maps: "n", "n-a" and "m"
NodeNames == {<<"n">>, DefaultName, <<"m">>}
\* the stage names reported through the stage callback, in the order of
\* the calls: one by _run_pipeline, two by run_pipeline_job, then those of
\* process_single_video (vision and ocr run in two threads of one pool)
StageOrder ==
    <<"ingest", "ingest", "ingest", "ingest", "frame_extract", "vision",
      "ocr", "llm">>

VARIABLES
    jobs,       \* the jobs table: id -> row
    lock,       \* holder of the store's write lock, or Free
    pc,         \* worker -> position in claim_and_process_job
    cur,        \* worker -> job_id of the row it claimed
    wevents,    \* worker -> events list read by _append_job_event
    msg,        \* worker -> message _append_job_event is appending
    after,      \* worker -> position after the running _append_job_event
    cbs,        \* worker -> stage callbacks made by the running pipeline
    ret,        \* worker -> last return value of claim_and_process_job
    dpc,        \* watchdog -> position in _recover_stale_jobs
    cand,       \* watchdog -> job_ids read as candidates
    dret,       \* watchdog -> last return value of _recover_stale_jobs
    spc,        \* position of _recover_stale_jobs_on_startup
    scand,      \* job_ids the startup sweep read as candidates
    sweeps,     \* startup sweeps started so far
    sret,       \* last return value of _recover_stale_jobs_on_startup
    stale_timeout,  \* the configured STALE_JOB_TIMEOUT_SECONDS
    thread,     \* watchdog -> what start_stale_recovery_thread returned
    nodes,      \* cluster.nodes: the node names, in the order of the map
    self_name,  \* cluster.self_name
    enabled,  \* cluster.enabled
    node_status,    \* cluster.node_status: name -> last health-check result
    last_rr_index,  \* cluster.last_rr_index
    selected,   \* last outcome of _rr_or_raise
    prev_healthy,   \* history: the healthy nodes at the previous placement
    job_id,     \* the id made by the last _create_job
    creator,    \* history: the node that made job_id
    routed,     \* last outcome of _maybe_proxy: <<node asked, node served>>
    req,        \* the client request that is being handled in the cluster
    reachable,  \* the nodes that answer requests sent to their address
    aggr,       \* cluster_jobs: the answers of the nodes, one after another
    listed,     \* what cluster_jobs returned
    is_child,   \* multiprocessing.parent_process() is not None
    embed_workers,  \* _parse_embed_workers()
    procs,      \* the processes spawned so far: pid -> "alive" / "dead"
    children,   \* embedded._children: the pids of the supervised processes
    monitor_thread, \* embedded._monitor_thread
    tpc,        \* monitor thread -> position in _monitor_loop
    tidx,       \* monitor thread -> index of its for loop
    tsnap,      \* monitor thread -> the list(_children) it iterates over
    shutdown_event, \* embedded._shutdown_event
    sdpc,       \* position of shutdown()
    start_ret,  \* last return value of start()
    starts,     \* calls of start() so far
    shutdowns,  \* calls of shutdown() so far
    kills,      \* processes killed from outside so far
    srow,       \* the row of the streamed job, as the stream's SELECT sees it
    stpc,       \* position of the event_generator of stream_job_events
    last_updated,   \* event_generator: last_updated (0: None)
    sent,       \* the events the generator yielded so far
    connected,  \* not req.is_disconnected()
    aborted_jobs,   \* the job ids marked in the shared dict _aborted_jobs
    abort_store,    \* _aborted_jobs is not None in the processes
    attempts,   \* worker -> executions of the UPDATE that raised last
    lpc,        \* lifespan: where the API process is in its startup
    mode,       \* job -> the mode column of its row
    faults,     \* worker faults so far
    appended,   \* history: job -> number of messages handed to an append
    claimedBy   \* history: job -> workers that moved it to processing

wvars == <<pc, cur, wevents, msg, after, cbs, ret>>
dvars == <<dpc, cand, dret>>
svars == <<spc, scand, sweeps, sret>>
cfgvars == <<stale_timeout, thread>>
cvars == <<nodes, self_name, enabled, node_status, last_rr_index, selected,
           prev_healthy, job_id, creator, routed>>
rvars == <<req, reachable>>
lvars == <<aggr, listed>>
pvars == <<is_child, embed_workers, procs, children, monitor_thread, tpc,
           tidx, tsnap, shutdown_event, sdpc, start_ret, starts, shutdowns,
           kills>>
tvars == <<srow, stpc, last_updated, sent, connected>>
avars == <<aborted_jobs, abort_store>>
mvars == <<attempts>>
xvars == <<lpc, mode>>
evars == <<rvars, lvars, pvars, tvars, avars, mvars, xvars>>
vars  == <<jobs, lock, wvars, dvars, svars, faults, appended, claimedBy,
           cfgvars, cvars, evars>>

\* ------------------------------------------------------------- the store
\* a row that reached completed long ago
OldRow ==
    [status |-> "completed", stage |-> "completed",
     detail |-> "result persisted", age |-> STALE_TIMEOUT_SECONDS + 1,
     events |-> <<>>, error |-> 0, progress |-> 100]

\* no row: what a query finds for an id after DELETE FROM jobs WHERE id = ?
Gone ==
    [status |-> "gone", stage |-> "gone", detail |-> "-", age |-> 0,
     events |-> <<>>, error |-> 0, progress |-> 0]

\* _create_job: the row as inserted.
NewRow ==
    [status |-> "queued", stage |-> "queued",
     detail |-> "waiting for worker claim", age |-> 0, events |-> <<>>,
     error |-> 0, progress |-> 0]

\* updated_at < datetime('now', '-STALE_TIMEOUT_SECONDS seconds')
Stale(row) == row.age > stale_timeout

\* events[-400:]
Bounded(evs) ==
    IF Len(evs) > MaxEvents
    THEN SubSeq(evs, Len(evs) - MaxEvents + 1, Len(evs))
    ELSE evs

\* f"{timestamp} {stage_name}: {detail_msg}" (the timestamp is left out)
Event(stage, detail) == <<stage, detail>>

\* everything but the jobs table, at process start
InitProcesses ==
    /\ lock = Free
    /\ pc = [w \in Workers |-> "idle"]
    /\ cur = [w \in Workers |-> NoJob]
    /\ wevents = [w \in Workers |-> <<>>]
    /\ msg = [w \in Workers |-> <<>>]
    /\ after = [w \in Workers |-> "idle"]
    /\ cbs = [w \in Workers |-> 0]
    /\ ret = [w \in Workers |-> "none"]
    /\ dpc = [d \in Watchdogs |-> "idle"]
    /\ cand = [d \in Watchdogs |-> {}]
    /\ dret = [d \in Watchdogs |-> NoReturn]
    /\ spc = "idle"
    /\ scand = {}
    /\ sweeps = 0
    /\ sret = NoReturn
    /\ faults = 0
    /\ appended = [j \in Jobs |-> 0]
    /\ claimedBy = [j \in Jobs |-> {}]

\* no client request in the cluster, every node reachable
NoRequest ==
    [kind |-> "none", id |-> <<>>, owner |-> <<>>, entry |-> <<>>,
     at |-> <<>>, internal |-> FALSE, hops |-> 0, outcome |-> "none"]

InitRouter ==
    /\ req = NoRequest
    /\ reachable = NodeNames

\* the value held for a listing that was not made yet
NoListing == [made |-> FALSE, jobs |-> <<>>]

InitListing ==
    /\ aggr = <<>>
    /\ listed = NoListing

\* calls of start()
MaxStarts == 2
\* the threads that can run _monitor_loop, one for each call of start()
Threads == 1..MaxStarts
\* _monitor_thread = None
NoThread == 0

\* the module embedded after import, in a process of the given kind
InitEmbedded(child, embed) ==
    /\ is_child = child
    /\ embed_workers = embed
    /\ procs = <<>>
    /\ children = <<>>
    /\ monitor_thread = NoThread
    /\ tpc = [t \in Threads |-> "unborn"]
    /\ tidx = [t \in Threads |-> 0]
    /\ tsnap = [t \in Threads |-> <<>>]
    /\ shutdown_event = FALSE
    /\ sdpc = "idle"
    /\ start_ret = NoReturn
    /\ starts = 0
    /\ shutdowns = 0
    /\ kills = 0

\* the row a stream would read when no stream is open
NoRow == [exists |-> FALSE, status |-> "none", updated_at |-> 0]

InitStream ==
    /\ srow = NoRow
    /\ stpc = "closed"
    /\ last_updated = 0
    /\ sent = <<>>
    /\ connected = FALSE

\* abort.py after import: _aborted_jobs = None
InitAbort ==
    /\ aborted_jobs = {}
    /\ abort_store = FALSE

\* no write of a worker has raised
InitMutator == attempts = [w \in Workers |-> 0]

\* the API process before its lifespan has run
InitLifespan == lpc = "startup"

\* class JobMode(str, Enum): the modes a submission may name
JobMode == {"pipeline", "agent", "benchmark"}

\* every job was submitted with the default mode
InitModes == mode = [j \in Jobs |-> "pipeline"]

\* the parts of the service that are not running
InitIdle ==
    /\ InitRouter
    /\ InitListing
    /\ InitEmbedded(FALSE, TRUE)
    /\ InitStream
    /\ InitAbort
    /\ InitMutator
    /\ InitLifespan
    /\ InitModes

\* the stale timeout at its (scaled) default, the watchdog thread running
InitConfig ==
    /\ stale_timeout = STALE_TIMEOUT_SECONDS
    /\ thread = [d \in Watchdogs |-> "alive"]

\* ClusterConfig.__init__ and load_config without a config file:
\* single-node mode, the node registers itself only
InitCluster ==
    /\ nodes = <<DefaultName>>
    /\ self_name = DefaultName
    /\ enabled = FALSE
    /\ node_status = [n \in {DefaultName} |-> TRUE]
    /\ last_rr_index = 0
    /\ selected = <<>>
    /\ prev_healthy = <<>>
    /\ job_id = <<>>
    /\ creator = <<>>
    /\ routed = <<>>

\* a store with one submitted job and one job that completed long ago
Init ==
    /\ jobs = [j \in Jobs |-> IF j = "j1" THEN NewRow ELSE OldRow]
    /\ InitProcesses
    /\ InitIdle
    /\ InitConfig
    /\ InitCluster

\* a row left behind by an earlier run of the service
LeftRow(status) ==
    [status |-> status, stage |-> status, detail |-> "-",
     age |-> STALE_TIMEOUT_SECONDS + 1, events |-> <<>>,
     error |-> IF status = "failed" THEN 5 ELSE 0,
     progress |-> IF status = "completed" THEN 100 ELSE 0]

\* a store holding exactly one queued row
OneQueuedInit ==
    /\ \E q \in Jobs : \E status \in {"processing", "completed", "failed"} :
          jobs = [j \in Jobs |-> IF j = q THEN NewRow ELSE LeftRow(status)]
    /\ InitProcesses
    /\ InitIdle
    /\ InitConfig
    /\ InitCluster

\* the values STALE_JOB_TIMEOUT_SECONDS is configured to
StaleTimeouts == {-1, 0, STALE_TIMEOUT_SECONDS}

\* a process that starts with a configured timeout on a store whose only
\* open job was left in processing
ConfigInit ==
    /\ jobs = [j \in Jobs |->
                  IF j = "j1" THEN LeftRow("processing") ELSE OldRow]
    /\ InitProcesses
    /\ InitIdle
    /\ stale_timeout \in StaleTimeouts
    /\ thread = [d \in Watchdogs |-> "unstarted"]
    /\ InitCluster

\* a store whose only open job was left in processing by a process that died
AbandonedInit ==
    /\ jobs = [j \in Jobs |->
                  IF j = "j1" THEN LeftRow("processing") ELSE OldRow]
    /\ InitProcesses
    /\ InitIdle
    /\ InitConfig
    /\ InitCluster


\* a store with two jobs submitted with any of the modes
ModeInit ==
    /\ jobs = [j \in Jobs |-> NewRow]
    /\ InitProcesses
    /\ InitRouter
    /\ InitListing
    /\ InitEmbedded(FALSE, TRUE)
    /\ InitStream
    /\ InitAbort
    /\ InitMutator
    /\ InitLifespan
    /\ mode \in [Jobs -> JobMode]
    /\ InitConfig
    /\ InitCluster

\* a store with two submitted jobs
TwoQueuedInit ==
    /\ jobs = [j \in Jobs |-> NewRow]
    /\ InitProcesses
    /\ InitIdle
    /\ InitConfig
    /\ InitCluster

\* ------------------------------------------------------------ the worker
\* a claim that opens a plain deferred transaction: nothing is locked
BeginDeferred(w) == lock' = lock

\* conn.execute("BEGIN EXCLUSIVE"): waits until no other connection holds
\* the write lock, then takes it.
BeginExclusive(w) ==
    /\ lock = Free
    /\ lock' = w

\* a commit that leaves the transaction open
ReleaseNever(w) == lock' = lock

\* commit / rollback / death of the connection that holds the lock
Release(w) == lock' = IF lock = w THEN Free ELSE lock

\* a stage write that inserts the row when there is none
SetStageRowUpsert(row, stage, detail, status, error) ==
    [row EXCEPT !.stage = stage, !.detail = detail, !.age = 0,
                !.status = IF status = "keep" THEN @ ELSE status,
                !.error = IF error = 0 THEN @
                          ELSE IF error > ERROR_CAP THEN ERROR_CAP ELSE error]

\* UPDATE jobs SET stage = ?, stage_detail = ?, updated_at = CURRENT_TIMESTAMP
\* [, status = ?] [, error = ?] WHERE id = ?   ("keep" / 0: the column is not
\* written; the error column holds the length of error[:4096]); where no
\* row has the id, nothing is written
SetStageRow(row, stage, detail, status, error) ==
    IF row = Gone THEN row
    ELSE [row EXCEPT !.stage = stage, !.detail = detail, !.age = 0,
                     !.status = IF status = "keep" THEN @ ELSE status,
                     !.error = IF error = 0 THEN @
                               ELSE IF error > ERROR_CAP THEN ERROR_CAP
                               ELSE error]

\* the UPDATE of _set_stage followed by the start of its _append_job_event
SetStage(w, stage, detail, status, error, next) ==
    /\ lock = Free
    /\ jobs' = [jobs EXCEPT ![cur[w]] =
                   SetStageRow(@, stage, detail, status, error)]
    /\ msg' = [msg EXCEPT ![w] = Event(stage, detail)]
    /\ after' = [after EXCEPT ![w] = next]
    /\ pc' = [pc EXCEPT ![w] = "ev_read"]

\* claim_and_process_job returns (or its process ends): its locals are gone
Return(w, value) ==
    /\ pc' = [pc EXCEPT ![w] = "idle"]
    /\ cur' = [cur EXCEPT ![w] = NoJob]
    /\ wevents' = [wevents EXCEPT ![w] = <<>>]
    /\ msg' = [msg EXCEPT ![w] = <<>>]
    /\ after' = [after EXCEPT ![w] = "idle"]
    /\ cbs' = [cbs EXCEPT ![w] = 0]
    /\ ret' = [ret EXCEPT ![w] = value]

\* claim_and_process_job: BEGIN EXCLUSIVE
ClaimBegin(w) ==
    /\ pc[w] = "idle"
    /\ BeginExclusive(w)
    /\ pc' = [pc EXCEPT ![w] = "select"]
    /\ UNCHANGED <<jobs, cur, wevents, msg, after, cbs, ret, dvars, svars,
                   faults, appended, claimedBy,
                   cfgvars, cvars, evars>>

\* a claim whose failure to get the lock reaches the worker loop
ClaimBusyRaises(w) ==
    /\ pc[w] = "idle"
    /\ lock \notin {Free, w}
    /\ pc' = [pc EXCEPT ![w] = "sleep"]
    /\ ret' = [ret EXCEPT ![w] = "raised"]
    /\ UNCHANGED <<jobs, lock, cur, wevents, msg, after, cbs, dvars, svars,
                   faults, appended, claimedBy, cfgvars, cvars, evars>>

\* BEGIN EXCLUSIVE raises "database is locked" after the busy timeout while
\* another connection holds the write lock: except Exception:
\* conn.rollback(); return False.  The loop sleeps before its next iteration.
ClaimBusy(w) ==
    /\ pc[w] = "idle"
    /\ lock \notin {Free, w}
    /\ pc' = [pc EXCEPT ![w] = "sleep"]
    /\ ret' = [ret EXCEPT ![w] = "False"]
    /\ UNCHANGED <<jobs, lock, cur, wevents, msg, after, cbs, dvars, svars,
                   faults, appended, claimedBy, cfgvars, cvars, evars>>

\* _run_single_worker: if not processed: time.sleep(1); next iteration
LoopSleep(w) ==
    /\ pc[w] = "sleep"
    /\ pc' = [pc EXCEPT ![w] = "idle"]
    /\ UNCHANGED <<jobs, lock, cur, wevents, msg, after, cbs, ret, dvars,
                   svars, faults, appended, claimedBy, cfgvars, cvars, evars>>

\* SELECT * FROM jobs WHERE status = 'queued' LIMIT 1: a row was found
ClaimSelect(w) ==
    /\ pc[w] = "select"
    /\ \E j \in Jobs :
          /\ jobs[j].status = "queued"
          /\ cur' = [cur EXCEPT ![w] = j]
    /\ pc' = [pc EXCEPT ![w] = "update"]
    /\ UNCHANGED <<jobs, lock, wevents, msg, after, cbs, ret, dvars, svars,
                   faults, appended, claimedBy,
                   cfgvars, cvars, evars>>

\* no row: conn.rollback(); return False
ClaimNoWork(w) ==
    /\ pc[w] = "select"
    /\ \A j \in Jobs : jobs[j].status # "queued"
    /\ Release(w)
    /\ Return(w, "False")
    /\ UNCHANGED <<jobs, dvars, svars, faults, appended, claimedBy,
                   cfgvars, cvars, evars>>

\* UPDATE jobs SET status = 'processing', stage = 'claim', ... ; commit;
\* then _append_job_event(job_id, "claim: worker claimed job") starts
ClaimCommit(w) ==
    /\ pc[w] = "update"
    /\ lock \in {w, Free}
    /\ jobs' = [jobs EXCEPT ![cur[w]] =
                   SetStageRow(@, "claim", "worker claimed job", "processing", 0)]
    /\ Release(w)
    /\ claimedBy' = [claimedBy EXCEPT ![cur[w]] = @ \cup {w}]
    /\ msg' = [msg EXCEPT ![w] = Event("claim", "worker claimed job")]
    /\ after' = [after EXCEPT ![w] = "run"]
    /\ cbs' = [cbs EXCEPT ![w] = 0]
    /\ pc' = [pc EXCEPT ![w] = "ev_read"]
    /\ UNCHANGED <<cur, wevents, ret, dvars, svars, faults, appended,
                   cfgvars, cvars, evars>>

\* _append_job_event: SELECT events FROM jobs WHERE id = ?
AppendJobEventRead(w) ==
    /\ pc[w] = "ev_read"
    /\ wevents' = [wevents EXCEPT ![w] = jobs[cur[w]].events]
    /\ pc' = [pc EXCEPT ![w] = "ev_write"]
    /\ UNCHANGED <<jobs, lock, cur, msg, after, cbs, ret, dvars, svars,
                   faults, appended, claimedBy,
                   cfgvars, cvars, evars>>

\* _append_job_event: events.append(message); events = events[-400:];
\* UPDATE jobs SET events = ?, updated_at = CURRENT_TIMESTAMP WHERE id = ?
AppendJobEventWrite(w) ==
    /\ pc[w] = "ev_write"
    /\ lock = Free
    /\ jobs' = [jobs EXCEPT ![cur[w]] =
                   IF @ = Gone THEN @
                   ELSE [@ EXCEPT
                            !.events = Bounded(Append(wevents[w], msg[w])),
                            !.age = 0]]
    /\ appended' = [appended EXCEPT ![cur[w]] = @ + 1]
    /\ IF after[w] = "idle"
       THEN Return(w, "True")
       ELSE /\ pc' = [pc EXCEPT ![w] = after[w]]
            /\ wevents' = [wevents EXCEPT ![w] = <<>>]
            /\ msg' = [msg EXCEPT ![w] = <<>>]
            /\ UNCHANGED <<cur, after, cbs, ret>>
    /\ UNCHANGED <<lock, dvars, svars, faults, claimedBy,
                   cfgvars, cvars, evars>>

\* _stage_callback(job_id)(stage, detail), called by the running pipeline;
\* _run_pipeline and _run_agent make the first call themselves, with
\* stage "ingest"
StageCallback(w) ==
    /\ pc[w] = "run"
    /\ mode[cur[w]] \in {"pipeline", "agent"}
    /\ cbs[w] < MaxCallbacks
    /\ cbs[w] < Len(StageOrder)
    /\ SetStage(w, StageOrder[cbs[w] + 1], "progress", "keep", 0, "run")
    /\ cbs' = [cbs EXCEPT ![w] = @ + 1]
    /\ UNCHANGED <<lock, cur, wevents, ret, dvars, svars, faults, appended,
                   claimedBy,
                   cfgvars, cvars, evars>>

\* the pipeline returned: _set_stage(job_id, "persist", ...)
PersistStage(w) ==
    /\ pc[w] = "run"
    /\ cbs[w] >= 1
    /\ SetStage(w, "persist", "persisting result payload", "keep", 0,
                "complete")
    /\ UNCHANGED <<lock, cur, wevents, cbs, ret, dvars, svars, faults,
                   appended, claimedBy,
                   cfgvars, cvars, evars>>

\* the pipeline raised: _set_stage(job_id, "failed", ..., status="failed",
\* error=error_msg)
FailStage(w) ==
    /\ pc[w] = "run"
    /\ cbs[w] >= 1
    /\ \E len \in ErrorLens :
          SetStage(w, "failed", "job failed", "failed", len, "idle")
    /\ UNCHANGED <<lock, cur, wevents, cbs, ret, dvars, svars, faults,
                   appended, claimedBy,
                   cfgvars, cvars, evars>>

\* claim_and_process_job: else: raise ValueError(f"Unknown mode: {mode}"),
\* caught as error_msg; then _set_stage(job_id, "failed", ...,
\* status="failed", error=error_msg)
RaiseUnknownMode(w) ==
    /\ pc[w] = "run"
    /\ cbs[w] = 0
    /\ mode[cur[w]] \notin {"pipeline", "agent"}
    /\ \E len \in ErrorLens :
          SetStage(w, "failed", "job failed: ValueError: Unknown mode",
                   "failed", len, "idle")
    /\ UNCHANGED <<lock, cur, wevents, cbs, ret, dvars, svars, faults,
                   appended, claimedBy,
                   cfgvars, cvars, evars>>

\* update_conn.execute("UPDATE jobs SET status = 'completed', ..."): the
\* statement opens a transaction on update_conn, which is committed only
\* when the with-block is left
CompleteUpdate(w) ==
    /\ pc[w] = "complete"
    /\ lock = Free
    /\ lock' = w
    /\ pc' = [pc EXCEPT ![w] = "complete_ev"]
    /\ UNCHANGED <<jobs, cur, wevents, msg, after, cbs, ret, dvars, svars,
                   faults, appended, claimedBy,
                   cfgvars, cvars, evars>>

\* _append_job_event(job_id, "completed: result persisted") runs on its own
\* connection while update_conn holds the write lock: its UPDATE times out,
\* the exception is swallowed (event_append_failed) and no event is written.
\* Then the with-block commits the completed row; return True.
CompleteCommit(w) ==
    /\ pc[w] = "complete_ev"
    /\ jobs' = [jobs EXCEPT ![cur[w]] =
                   IF @ = Gone THEN @
                   ELSE [SetStageRow(@, "completed", "result persisted",
                                     "completed", 0) EXCEPT !.progress = 100]]
    /\ appended' = [appended EXCEPT ![cur[w]] = @ + 1]
    /\ Release(w)
    /\ Return(w, "True")
    /\ UNCHANGED <<dvars, svars, faults, claimedBy,
                   cfgvars, cvars, evars>>

\* the worker process dies inside claim_and_process_job; its connections
\* roll back; the
\* supervisor starts a new process at the same index
WorkerDies(w) ==
    /\ pc[w] # "idle"
    /\ faults < MaxFaults
    /\ faults' = faults + 1
    /\ Release(w)
    /\ Return(w, "none")
    /\ UNCHANGED <<jobs, dvars, svars, appended, claimedBy,
                   cfgvars, cvars, evars>>

\* the terminal write raises: except Exception: conn.rollback(); return False
TerminalWriteRaises(w) ==
    /\ \/ pc[w] = "run" /\ cbs[w] >= 1
       \/ pc[w] = "complete"
    /\ faults < MaxFaults
    /\ faults' = faults + 1
    /\ Return(w, "False")
    /\ UNCHANGED <<jobs, lock, dvars, svars, appended, claimedBy,
                   cfgvars, cvars, evars>>


\* ---------------------------------------------------------- the recovery
\* _append_recovery_event(conn, job_id, message), inside the caller's
\* transaction: read events, append, keep the last 400, write back
AppendRecoveryEvent(row, message) ==
    IF row = Gone THEN row
    ELSE [row EXCEPT
             !.events = Bounded(Append(@, Event("recovery", message))),
             !.age = 0]

\* _recover_stale_jobs: SELECT id FROM jobs WHERE status = 'processing'
\* AND updated_at < datetime('now', ?);  if not job_ids: return 0
RecoverStaleJobsSelect(d) ==
    LET ids == {j \in Jobs : jobs[j].status = "processing" /\ Stale(jobs[j])}
    IN  /\ cand' = [cand EXCEPT ![d] = ids]
        /\ IF ids = {}
           THEN /\ dret' = [dret EXCEPT ![d] = 0]
                /\ dpc' = dpc
           ELSE /\ dpc' = [dpc EXCEPT ![d] = "update"]
                /\ dret' = dret

\* a pass that does not look at the configured timeout
RecoverStaleJobsReadAlways(d) ==
    /\ dpc[d] = "idle"
    /\ RecoverStaleJobsSelect(d)
    /\ UNCHANGED <<jobs, lock, wvars, svars, faults, appended, claimedBy,
                   cfgvars, cvars, evars>>

\* _recover_stale_jobs, up to its candidate read:
\* if STALE_TIMEOUT_SECONDS <= 0: return 0
RecoverStaleJobsRead(d) ==
    /\ dpc[d] = "idle"
    /\ IF stale_timeout <= 0
       THEN /\ dret' = [dret EXCEPT ![d] = 0]
            /\ UNCHANGED <<dpc, cand>>
       ELSE RecoverStaleJobsSelect(d)
    /\ UNCHANGED <<jobs, lock, wvars, svars, faults, appended, claimedBy,
                   cfgvars, cvars, evars>>

\* start_stale_recovery_thread: returns None when the timeout is zero or
\* negative, else starts the watchdog thread (once per process)
StartStaleRecoveryThread(d) ==
    /\ thread[d] = "unstarted"
    /\ thread' = [thread EXCEPT ![d] =
                     IF stale_timeout <= 0 THEN "None" ELSE "alive"]
    /\ UNCHANGED <<jobs, lock, wvars, dvars, svars, faults, appended,
                   claimedBy, stale_timeout, cvars, evars>>

\* a watchdog that resets to a status the claim query does not select
WatchdogResetUnclaimable(row) ==
    IF row.status = "processing" /\ Stale(row)
    THEN [row EXCEPT !.status = "re-queued", !.stage = "re-queued",
                     !.detail = WatchdogDetail, !.age = 0]
    ELSE row

\* the row after the watchdog's UPDATE ... WHERE id IN (job_ids)
\* AND status = 'processing' AND updated_at < datetime('now', ?)
WatchdogReset(row) ==
    IF row.status = "processing" /\ Stale(row)
    THEN [row EXCEPT !.status = "queued", !.stage = "queued",
                     !.detail = WatchdogDetail, !.age = 0]
    ELSE row

\* SELECT id FROM jobs WHERE id IN (job_ids) AND status = 'queued'
\* AND stage_detail = 'recovered by watchdog (stale timeout)'
WatchdogRecovered(row) ==
    row.status = "queued" /\ row.detail = WatchdogDetail

\* _recover_stale_jobs: with conn: the UPDATE, the SELECT of the recovered
\* rows and one _append_recovery_event for each, in one transaction
RecoverStaleJobsUpdate(d) ==
    /\ dpc[d] = "update"
    /\ lock = Free
    /\ LET reset == [j \in Jobs |->
                        IF j \in cand[d] THEN WatchdogReset(jobs[j]) ELSE jobs[j]]
           recovered_ids == {j \in cand[d] : WatchdogRecovered(reset[j])}
       IN  /\ jobs' = [j \in Jobs |->
                          IF j \in recovered_ids
                          THEN AppendRecoveryEvent(reset[j], WatchdogDetail)
                          ELSE reset[j]]
           /\ appended' = [j \in Jobs |->
                              IF j \in recovered_ids
                              THEN appended[j] + 1
                              ELSE appended[j]]
           /\ dret' = [dret EXCEPT ![d] = Cardinality(recovered_ids)]
    /\ dpc' = [dpc EXCEPT ![d] = "idle"]
    /\ cand' = [cand EXCEPT ![d] = {}]
    /\ UNCHANGED <<lock, wvars, svars, faults, claimedBy,
                   cfgvars, cvars, evars>>

\* _recover_stale_jobs_on_startup: SELECT id FROM jobs WHERE
\* status = 'processing';  if not job_ids: return 0
StartupSweepRead ==
    /\ spc = "idle"
    /\ sweeps < MaxSweeps
    /\ sweeps' = sweeps + 1
    /\ LET ids == {j \in Jobs : jobs[j].status = "processing"}
       IN  /\ scand' = ids
           /\ spc' = IF ids = {} THEN "idle" ELSE "update"
           /\ sret' = IF ids = {} THEN 0 ELSE sret
    /\ UNCHANGED <<jobs, lock, wvars, dvars, faults, appended, claimedBy,
                   cfgvars, cvars, evars>>

\* a sweep that resets to a status the claim query does not select
SweepResetUnclaimable(row) ==
    [row EXCEPT !.status = "re-queued", !.stage = "re-queued",
                !.detail = RestartDetail, !.age = 0]

\* the row after the sweep's UPDATE ... WHERE id IN (job_ids)
SweepReset(row) ==
    IF row = Gone THEN row
    ELSE [row EXCEPT !.status = "queued", !.stage = "queued",
                     !.detail = RestartDetail, !.age = 0]

\* _recover_stale_jobs_on_startup: with conn: the UPDATE and one
\* _append_recovery_event for every candidate, in one transaction
StartupSweepUpdate ==
    /\ spc = "update"
    /\ lock = Free
    /\ jobs' = [j \in Jobs |->
                   IF j \in scand
                   THEN AppendRecoveryEvent(SweepReset(jobs[j]), RestartEvent)
                   ELSE jobs[j]]
    /\ appended' = [j \in Jobs |->
                       IF j \in scand
                       THEN appended[j] + 1
                       ELSE appended[j]]
    /\ spc' = "idle"
    /\ sret' = Cardinality(scand)
    /\ scand' = {}
    /\ UNCHANGED <<lock, wvars, dvars, sweeps, faults, claimedBy,
                   cfgvars, cvars, evars>>

\* ----------------------------------------------------------- the cluster
Range(seq) == {seq[i] : i \in 1..Len(seq)}

\* str.startswith
StartsWith(str, prefix) ==
    /\ Len(prefix) <= Len(str)
    /\ SubSeq(str, 1, Len(prefix)) = prefix

\* the node maps of cluster_config.json: one to three nodes, in any order
NodeMaps ==
    {map \in [1..1 -> NodeNames] \cup [1..2 -> NodeNames]
                \cup [1..3 -> NodeNames] :
        \A i \in DOMAIN map : \A k \in DOMAIN map : i # k => map[i] # map[k]}

\* the uuid part of a job id (hex digits, scaled down)
Uuids == {<<"a">>, <<"f">>}

\* raise HTTPException(503, "No healthy nodes available")
Unavailable == <<"5", "0", "3">>

\* ClusterConfig.__init__ and load_config with a valid config file: every
\* node starts healthy
ClusterInit ==
    /\ nodes \in NodeMaps
    /\ self_name \in Range(nodes)
    /\ enabled = (Len(nodes) > 1)
    /\ node_status = [n \in Range(nodes) |-> TRUE]
    /\ last_rr_index = 0
    /\ selected = <<>>
    /\ prev_healthy = <<>>
    /\ job_id = <<>>
    /\ creator = <<>>
    /\ routed = <<>>
    /\ jobs = [j \in Jobs |-> OldRow]
    /\ InitProcesses
    /\ InitIdle
    /\ InitConfig

\* self.enabled, as load_config left it
Enabled == enabled

\* get_healthy_nodes: the nodes whose status is true, in the map's order
GetHealthyNodes == SelectSeq(nodes, LAMBDA n : node_status[n])

\* _health_check_loop (started when the cluster is enabled), one node of
\* one round: self is healthy, a peer is as its /health request answered
HealthCheck(n) ==
    /\ Enabled
    /\ n \in Range(nodes)
    /\ \E answer \in BOOLEAN :
          node_status' = [node_status EXCEPT ![n] =
                             IF n = self_name THEN TRUE ELSE answer]
    /\ UNCHANGED <<jobs, lock, wvars, dvars, svars, faults, appended,
                   claimedBy, cfgvars, nodes, self_name, enabled, last_rr_index,
                   selected, prev_healthy, job_id, creator, routed,
                   evars>>

\* a placement that goes round all configured nodes
SelectRrNodeAll ==
    /\ last_rr_index' = (last_rr_index + 1) % Len(nodes)
    /\ selected' = nodes[last_rr_index' + 1]
    /\ prev_healthy' = GetHealthyNodes
    /\ UNCHANGED <<jobs, lock, wvars, dvars, svars, faults, appended,
                   claimedBy, cfgvars, nodes, self_name, enabled, node_status,
                   job_id, creator, routed,
                   evars>>

\* _rr_or_raise and select_rr_node
SelectRrNode ==
    /\ LET healthy == GetHealthyNodes
       IN  IF ~ Enabled
           THEN /\ selected' = self_name
                /\ last_rr_index' = last_rr_index
           ELSE IF healthy = <<>>
           THEN /\ selected' = Unavailable
                /\ last_rr_index' = last_rr_index
           ELSE /\ last_rr_index' = (last_rr_index + 1) % Len(healthy)
                /\ selected' = healthy[last_rr_index' + 1]
    /\ prev_healthy' = GetHealthyNodes
    /\ UNCHANGED <<jobs, lock, wvars, dvars, svars, faults, appended,
                   claimedBy, cfgvars, nodes, self_name, enabled, node_status,
                   job_id, creator, routed,
                   evars>>

\* _create_job on node n: job_id = f"{NODE_NAME}-{uuid.uuid4()}"
CreateJob(n) ==
    /\ n \in Range(nodes)
    /\ \E uuid \in Uuids : job_id' = n \o <<"-">> \o uuid
    /\ creator' = n
    /\ UNCHANGED <<jobs, lock, wvars, dvars, svars, faults, appended,
                   claimedBy, cfgvars, nodes, self_name, enabled, node_status,
                   last_rr_index, selected, prev_healthy, routed,
                   evars>>

\* the first node of the map whose name followed by "-" starts the id
PrefixTarget(id) ==
    LET hits == {i \in 1..Len(nodes) : StartsWith(id, nodes[i] \o <<"-">>)}
    IN  IF hits = {} THEN <<>>
        ELSE nodes[CHOOSE i \in hits : \A k \in hits : i <= k]

\* _maybe_proxy on node at (its cluster.self_name), for a request that is
\* not marked internal: forward to the target, or serve locally
MaybeProxy(at) ==
    /\ at \in Range(nodes)
    /\ job_id # <<>>
    /\ LET target == PrefixTarget(job_id)
       IN  routed' = <<at,
                       IF target # <<>> /\ target # at THEN target ELSE at,
                       job_id>>
    /\ UNCHANGED <<jobs, lock, wvars, dvars, svars, faults, appended,
                   claimedBy, cfgvars, nodes, self_name, enabled, node_status,
                   last_rr_index, selected, prev_healthy, job_id, creator,
                   evars>>

\* a forward that does not mark the copy as internal
ProxyRequestUnmarked(target) ==
    IF target \in reachable
    THEN req' = [req EXCEPT !.at = target, !.hops = @ + 1]
    ELSE req' = [req EXCEPT !.outcome = "503"]

\* _proxy_request: the request is sent to the target's address with
\* "?internal=1"; any exception of the client (no connection, no answer
\* within cluster.internal_timeout) becomes HTTPException(503)
ProxyRequest(target) ==
    IF target \in reachable
    THEN req' = [req EXCEPT !.at = target, !.internal = TRUE, !.hops = @ + 1]
    ELSE req' = [req EXCEPT !.outcome = "503"]

\* a node stops answering, or answers again, while no request is under way
NodeToggle(n) ==
    /\ n \in Range(nodes)
    /\ req.outcome # "pending"
    /\ reachable' = IF n \in reachable THEN reachable \ {n}
                    ELSE reachable \cup {n}
    /\ UNCHANGED <<jobs, lock, wvars, dvars, svars, faults, appended,
                   claimedBy, cfgvars, cvars, req, lvars, pvars, tvars, avars,
                   mvars, xvars>>

\* a client sends a request for the job job_id to node at
ClientGetJob(at) ==
    /\ at \in Range(nodes) \cap reachable
    /\ req.outcome # "pending"
    /\ job_id # <<>>
    /\ req' = [kind |-> "job", id |-> job_id, owner |-> creator,
               entry |-> at, at |-> at, internal |-> FALSE, hops |-> 0,
               outcome |-> "pending"]
    /\ UNCHANGED <<jobs, lock, wvars, dvars, svars, faults, appended,
                   claimedBy, cfgvars, cvars, reachable, lvars, pvars, tvars,
                   avars, mvars, xvars>>

\* a client submits a new job to node at
ClientCreateJob(at) ==
    /\ at \in Range(nodes) \cap reachable
    /\ req.outcome # "pending"
    /\ req' = [kind |-> "new", id |-> <<>>, owner |-> <<>>,
               entry |-> at, at |-> at, internal |-> FALSE, hops |-> 0,
               outcome |-> "pending"]
    /\ UNCHANGED <<jobs, lock, wvars, dvars, svars, faults, appended,
                   claimedBy, cfgvars, cvars, reachable, lvars, pvars, tvars,
                   avars, mvars, xvars>>

\* get_job on the node the request is at: _maybe_proxy returns None for an
\* internal request, forwards to the prefix target if that is another node,
\* and else the node answers from its own store
GetJob ==
    /\ req.kind = "job"
    /\ req.outcome = "pending"
    /\ LET target == PrefixTarget(req.id)
       IN  IF ~ req.internal /\ target # <<>> /\ target # req.at
           THEN ProxyRequest(target)
           ELSE req' = [req EXCEPT !.outcome = "local"]
    /\ UNCHANGED <<jobs, lock, wvars, dvars, svars, faults, appended,
                   claimedBy, cfgvars, cvars, reachable, lvars, pvars, tvars,
                   avars, mvars, xvars>>

\* create_job_urls on the node the request is at: an internal request is
\* created here; else _rr_or_raise places it (on a peer, whose cluster
\* object is not part of the state, on any node) and the request is
\* forwarded if the placement is another node
CreateJobUrls ==
    /\ req.kind = "new"
    /\ req.outcome = "pending"
    /\ LET healthy == GetHealthyNodes
           index == IF Enabled /\ healthy # <<>>
                    THEN (last_rr_index + 1) % Len(healthy)
                    ELSE last_rr_index
           mine == IF ~ Enabled THEN self_name
                   ELSE IF healthy = <<>> THEN Unavailable
                   ELSE healthy[index + 1]
       IN  \E target \in IF req.at = self_name THEN {mine} ELSE Range(nodes) :
              /\ last_rr_index' = IF req.at = self_name /\ ~ req.internal
                                  THEN index ELSE last_rr_index
              /\ IF req.internal \/ target = req.at
                 THEN /\ req' = [req EXCEPT !.outcome = "local"]
                      /\ \E uuid \in Uuids :
                            job_id' = req.at \o <<"-">> \o uuid
                      /\ creator' = req.at
                 ELSE /\ IF target = Unavailable
                         THEN req' = [req EXCEPT !.outcome = "503"]
                         ELSE ProxyRequest(target)
                      /\ UNCHANGED <<job_id, creator>>
    /\ UNCHANGED <<jobs, lock, wvars, dvars, svars, faults, appended,
                   claimedBy, cfgvars, nodes, self_name, enabled, node_status,
                   selected, prev_healthy, routed, reachable, lvars, pvars,
                   tvars, avars, mvars, xvars>>

\* ----------------------------------------------------------- the listing
\* the longest aggregate of node answers
MaxListed == 3

\* the order of the characters of a timestamp
Ord(c) == CHOOSE k \in 0..9 : <<"0", "1", "2", "3", "4", "5", "6", "7",
                                 "8", "9">>[k + 1] = c

\* a > b for two Python strings
RECURSIVE StrGreater(_, _)
StrGreater(a, b) ==
    IF a = <<>> THEN FALSE
    ELSE IF b = <<>> THEN TRUE
    ELSE IF Head(a) # Head(b) THEN Ord(Head(a)) > Ord(Head(b))
    ELSE StrGreater(Tail(a), Tail(b))

\* the entries of the answers of /admin/jobs: job_id (empty: missing),
\* updated_at (empty: None) and created_at
ListedIds == {<<>>, <<"a">>, <<"b">>}
UpdatedAts == {<<>>, <<"1", "0">>, <<"2">>}
CreatedAts == {<<"1">>, <<"2">>}
Entries == [job_id : ListedIds, updated_at : UpdatedAts,
            created_at : CreatedAts]

\* the aggregates cluster_jobs builds from the answers of the healthy nodes
Aggregates == UNION {[1..len -> Entries] : len \in 0..MaxListed}

\* the position of job_id in the dict deduped (0: not in it)
DedupedAt(deduped, id) ==
    IF \E i \in 1..Len(deduped) : deduped[i].job_id = id
    THEN CHOOSE i \in 1..Len(deduped) : deduped[i].job_id = id
    ELSE 0

\* a loop body that keeps the entry seen last
DedupeLast(deduped, job) ==
    LET at == DedupedAt(deduped, job.job_id)
    IN  IF job.job_id = <<>> THEN deduped
        ELSE IF at = 0 THEN Append(deduped, job)
        ELSE [deduped EXCEPT ![at] = job]

\* the body of the loop of _dedupe_jobs_by_id: deduped is kept in the
\* insertion order of the dict
DedupePut(deduped, job) ==
    LET at == DedupedAt(deduped, job.job_id)
    IN  IF job.job_id = <<>> THEN deduped
        ELSE IF at = 0 THEN Append(deduped, job)
        ELSE IF StrGreater(job.updated_at, deduped[at].updated_at)
        THEN [deduped EXCEPT ![at] = job]
        ELSE deduped

\* for job in jobs: ...
RECURSIVE DedupeLoop(_, _)
DedupeLoop(deduped, rest) ==
    IF rest = <<>> THEN deduped
    ELSE DedupeLoop(DedupePut(deduped, Head(rest)), Tail(rest))

\* sorted(..., key=created_at, reverse=True): a stable sort, entries with
\* equal keys keep their order
RECURSIVE SortedByCreatedDesc(_)
SortedByCreatedDesc(values) ==
    IF values = <<>> THEN <<>>
    ELSE LET front == SortedByCreatedDesc(SubSeq(values, 1, Len(values) - 1))
             x == values[Len(values)]
             keep == {i \in 1..Len(front) :
                         ~ StrGreater(x.created_at, front[i].created_at)}
             cut == IF keep = {} THEN 0
                    ELSE CHOOSE i \in keep : \A k \in keep : k <= i
         IN  SubSeq(front, 1, cut) \o <<x>>
                \o SubSeq(front, cut + 1, Len(front))

\* _dedupe_jobs_by_id
DedupeJobsById(jobs_in) == SortedByCreatedDesc(DedupeLoop(<<>>, jobs_in))

\* cluster_jobs on an enabled cluster, after the answers were collected
ClusterJobs ==
    /\ listed = NoListing
    /\ listed' = [made |-> TRUE, jobs |-> DedupeJobsById(aggr)]
    /\ UNCHANGED <<jobs, lock, wvars, dvars, svars, faults, appended,
                   claimedBy, cfgvars, cvars, rvars, aggr, pvars, tvars,
                   avars, mvars, xvars>>

\* the answers of the nodes to one call of cluster_jobs
ListingInit ==
    /\ jobs = [j \in Jobs |-> OldRow]
    /\ InitProcesses
    /\ InitConfig
    /\ InitCluster
    /\ InitRouter
    /\ aggr \in Aggregates
    /\ listed = NoListing
    /\ InitEmbedded(FALSE, TRUE)
    /\ InitStream
    /\ InitAbort
    /\ InitMutator
    /\ InitLifespan
    /\ InitModes

\* -------------------------------------------------------- the supervisor
\* get_worker_processes_config(): WORKER_PROCESSES
ProcessCount == 2
\* calls of shutdown() and kills from outside
MaxShutdowns == 1
MaxKills     == 2

OutsideEmbedded ==
    <<jobs, lock, wvars, dvars, svars, faults, appended, claimedBy, cfgvars,
      cvars, rvars, lvars, tvars, avars, mvars, xvars>>

Alive(pid) == procs[pid] = "alive"
AliveCount(pids) == Cardinality({i \in 1..Len(pids) : Alive(pids[i])})

\* a start() that does not look at the process it runs in
StartSkipsNever == FALSE

\* start(): parent_process() is not None, or EMBED_WORKERS is off
StartSkips == is_child \/ ~ embed_workers

\* a start() that does not look at _children
AlreadyStartedNever == FALSE

\* start(): if _children
AlreadyStarted == children # <<>>

\* start(): return 0 in a child or when disabled; return the alive count
\* when children exist; else clear the event, spawn process_count children
\* and start the monitor thread
Start ==
    /\ sdpc = "idle"
    /\ starts < MaxStarts
    /\ starts' = starts + 1
    /\ IF StartSkips
       THEN /\ start_ret' = 0
            /\ UNCHANGED <<procs, children, monitor_thread, tpc, tidx,
                           tsnap, shutdown_event>>
       ELSE IF AlreadyStarted
       THEN /\ start_ret' = AliveCount(children)
            /\ UNCHANGED <<procs, children, monitor_thread, tpc, tidx,
                           tsnap, shutdown_event>>
       ELSE \E t \in Threads :
               /\ tpc[t] = "unborn"
               /\ \A u \in Threads : tpc[u] = "unborn" => t <= u
               /\ shutdown_event' = FALSE
               /\ procs' = procs \o [i \in 1..ProcessCount |-> "alive"]
               /\ children' = children
                                 \o [i \in 1..ProcessCount |-> Len(procs) + i]
               /\ monitor_thread' = t
               /\ tpc' = [tpc EXCEPT ![t] = "while"]
               /\ start_ret' = ProcessCount
               /\ UNCHANGED <<tidx, tsnap>>
    /\ UNCHANGED <<OutsideEmbedded, is_child, embed_workers, sdpc, shutdowns,
                   kills>>

\* a supervised process is killed from outside, or exits
Kill(pid) ==
    /\ pid \in 1..Len(procs)
    /\ Alive(pid)
    /\ kills < MaxKills
    /\ kills' = kills + 1
    /\ procs' = [procs EXCEPT ![pid] = "dead"]
    /\ UNCHANGED <<OutsideEmbedded, is_child, embed_workers, children,
                   monitor_thread, tpc, tidx, tsnap, shutdown_event, sdpc,
                   start_ret, starts, shutdowns>>

\* _monitor_loop: while not _shutdown_event.is_set():
\* for idx, proc in enumerate(list(_children))
MonitorWhile(t) ==
    /\ tpc[t] = "while"
    /\ IF shutdown_event
       THEN /\ tpc' = [tpc EXCEPT ![t] = "ended"]
            /\ UNCHANGED <<tidx, tsnap>>
       ELSE /\ tpc' = [tpc EXCEPT ![t] = "for"]
            /\ tidx' = [tidx EXCEPT ![t] = 1]
            /\ tsnap' = [tsnap EXCEPT ![t] = children]
    /\ UNCHANGED <<OutsideEmbedded, is_child, embed_workers, procs, children,
                   monitor_thread, shutdown_event, sdpc, start_ret, starts,
                   shutdowns, kills>>

\* a loop body that passes over a dead process
MonitorForPasses(t) ==
    /\ tpc[t] = "for"
    /\ IF tidx[t] > Len(tsnap[t])
       THEN /\ tpc' = [tpc EXCEPT ![t] = "wait"]
            /\ UNCHANGED tidx
       ELSE /\ tidx' = [tidx EXCEPT ![t] = @ + 1]
            /\ UNCHANGED tpc
    /\ UNCHANGED <<OutsideEmbedded, is_child, embed_workers, procs, children,
                   monitor_thread, tsnap, shutdown_event, sdpc, start_ret,
                   starts, shutdowns, kills>>

\* the loop body up to the respawn: if proc.is_alive(): continue;
\* if _shutdown_event.is_set(): return
MonitorFor(t) ==
    /\ tpc[t] = "for"
    /\ IF tidx[t] > Len(tsnap[t])
       THEN /\ tpc' = [tpc EXCEPT ![t] = "wait"]
            /\ UNCHANGED tidx
       ELSE IF Alive(tsnap[t][tidx[t]])
       THEN /\ tidx' = [tidx EXCEPT ![t] = @ + 1]
            /\ UNCHANGED tpc
       ELSE IF shutdown_event
       THEN /\ tpc' = [tpc EXCEPT ![t] = "ended"]
            /\ UNCHANGED tidx
       ELSE /\ tpc' = [tpc EXCEPT ![t] = "spawn"]
            /\ UNCHANGED tidx
    /\ UNCHANGED <<OutsideEmbedded, is_child, embed_workers, procs, children,
                   monitor_thread, tsnap, shutdown_event, sdpc, start_ret,
                   starts, shutdowns, kills>>

\* replacement = _spawn_child(idx + 1); replacement.start();
\* _children[idx] = replacement  (IndexError ends the thread when the list
\* was cleared)
MonitorRespawn(t) ==
    /\ tpc[t] = "spawn"
    /\ procs' = Append(procs, "alive")
    /\ IF tidx[t] <= Len(children)
       THEN /\ children' = [children EXCEPT ![tidx[t]] = Len(procs) + 1]
            /\ tidx' = [tidx EXCEPT ![t] = @ + 1]
            /\ tpc' = [tpc EXCEPT ![t] = "for"]
       ELSE /\ tpc' = [tpc EXCEPT ![t] = "ended"]
            /\ UNCHANGED <<children, tidx>>
    /\ UNCHANGED <<OutsideEmbedded, is_child, embed_workers, monitor_thread,
                   tsnap, shutdown_event, sdpc, start_ret, starts, shutdowns,
                   kills>>

\* _shutdown_event.wait(timeout=2.0) returns
MonitorWait(t) ==
    /\ tpc[t] = "wait"
    /\ tpc' = [tpc EXCEPT ![t] = "while"]
    /\ UNCHANGED <<OutsideEmbedded, is_child, embed_workers, procs, children,
                   monitor_thread, tidx, tsnap, shutdown_event, sdpc,
                   start_ret, starts, shutdowns, kills>>

MonitorStep(t) ==
    \/ MonitorWhile(t)
    \/ MonitorFor(t)
    \/ MonitorRespawn(t)
    \/ MonitorWait(t)

\* shutdown(): _shutdown_event.set()
ShutdownSet ==
    /\ sdpc = "idle"
    /\ shutdowns < MaxShutdowns
    /\ shutdowns' = shutdowns + 1
    /\ shutdown_event' = TRUE
    /\ sdpc' = "join"
    /\ UNCHANGED <<OutsideEmbedded, is_child, embed_workers, procs, children,
                   monitor_thread, tpc, tidx, tsnap, start_ret, starts,
                   kills>>

\* _monitor_thread.join(timeout=2.0); _monitor_thread = None: the join
\* returns when the thread has ended, or after the timeout while the
\* thread is starting a replacement process
ShutdownJoin ==
    /\ sdpc = "join"
    /\ monitor_thread # NoThread => tpc[monitor_thread] \in {"ended", "spawn"}
    /\ monitor_thread' = NoThread
    /\ sdpc' = "terminate"
    /\ UNCHANGED <<OutsideEmbedded, is_child, embed_workers, procs, children,
                   tpc, tidx, tsnap, shutdown_event, start_ret, starts,
                   shutdowns, kills>>

\* for proc in list(_children): if proc.is_alive(): proc.terminate();
\* a process that got the signal ends, or is still alive after the wait
ShutdownTerminate ==
    /\ sdpc = "terminate"
    /\ \E ended \in SUBSET Range(children) :
          procs' = [pid \in 1..Len(procs) |->
                       IF pid \in ended THEN "dead" ELSE procs[pid]]
    /\ sdpc' = "reap"
    /\ UNCHANGED <<OutsideEmbedded, is_child, embed_workers, children,
                   monitor_thread, tpc, tidx, tsnap, shutdown_event,
                   start_ret, starts, shutdowns, kills>>

\* for proc in list(_children): proc.join(timeout=5.0);
\* if proc.is_alive(): proc.kill(); proc.join(timeout=2.0)
ShutdownReap ==
    /\ sdpc = "reap"
    /\ procs' = [pid \in 1..Len(procs) |->
                    IF pid \in Range(children) THEN "dead" ELSE procs[pid]]
    /\ sdpc' = "clear"
    /\ UNCHANGED <<OutsideEmbedded, is_child, embed_workers, children,
                   monitor_thread, tpc, tidx, tsnap, shutdown_event,
                   start_ret, starts, shutdowns, kills>>

\* _children.clear(); the log listener and the abort manager are stopped;
\* shutdown() returns
ShutdownClear ==
    /\ sdpc = "clear"
    /\ children' = <<>>
    /\ sdpc' = "idle"
    /\ UNCHANGED <<OutsideEmbedded, is_child, embed_workers, procs,
                   monitor_thread, tpc, tidx, tsnap, shutdown_event,
                   start_ret, starts, shutdowns, kills>>

\* the import of the module in a parent or spawned process, with
\* EMBED_WORKERS on or off
EmbeddedInit ==
    /\ jobs = [j \in Jobs |-> OldRow]
    /\ InitProcesses
    /\ InitConfig
    /\ InitCluster
    /\ InitRouter
    /\ InitListing
    /\ \E child \in BOOLEAN : \E embed \in BOOLEAN :
          InitEmbedded(child, embed)
    /\ InitStream
    /\ InitAbort
    /\ InitMutator
    /\ InitLifespan
    /\ InitModes

\* ------------------------------------------------------------ the stream
\* the latest updated_at of the streamed row, in seconds
MaxStamp == 3

OutsideStream ==
    <<jobs, lock, wvars, dvars, svars, faults, appended, claimedBy, cfgvars,
      cvars, rvars, lvars, pvars, avars, mvars, xvars>>

Statuses == {"queued", "processing", "completed", "failed"}

\* a client opens the stream of a job id: the row is missing, or is in
\* some status; last_updated = None
StreamInit ==
    /\ jobs = [j \in Jobs |-> OldRow]
    /\ InitProcesses
    /\ InitConfig
    /\ InitCluster
    /\ InitRouter
    /\ InitListing
    /\ InitEmbedded(FALSE, TRUE)
    /\ srow \in {NoRow} \cup [exists : {TRUE}, status : Statuses,
                              updated_at : {1}]
    /\ stpc = "poll"
    /\ last_updated = 0
    /\ sent = <<>>
    /\ connected = TRUE
    /\ InitAbort
    /\ InitMutator
    /\ InitLifespan
    /\ InitModes

\* a write to the row by a worker or a recovery: SET ..., updated_at =
\* CURRENT_TIMESTAMP, in the second of the last write or a later one
RowWrite(status, seconds) ==
    /\ srow.exists
    /\ srow.updated_at + seconds <= MaxStamp
    /\ srow' = [srow EXCEPT !.status = status, !.updated_at = @ + seconds]
    /\ UNCHANGED <<OutsideStream, stpc, last_updated, sent, connected>>

\* delete_job: DELETE FROM jobs WHERE id = ?
DeleteJob ==
    /\ srow.exists
    /\ srow' = NoRow
    /\ UNCHANGED <<OutsideStream, stpc, last_updated, sent, connected>>

\* the client closes the connection
Disconnect ==
    /\ connected
    /\ connected' = FALSE
    /\ UNCHANGED <<OutsideStream, srow, stpc, last_updated, sent>>

SseEvent(name, row) ==
    [event |-> name, status |-> row.status, updated_at |-> row.updated_at]

\* the events of one iteration of event_generator for the row it read
Yielded(row) ==
    IF ~ row.exists THEN <<SseEvent("error", row)>>
    ELSE (IF row.updated_at # last_updated
          THEN <<SseEvent("update", row)>> ELSE <<>>)
            \o (IF row.status \in Terminal
                THEN <<SseEvent("complete", row)>> ELSE <<>>)

\* a generator that goes on polling after the complete event
StreamPollOn ==
    /\ stpc = "poll"
    /\ connected
    /\ sent' = sent \o Yielded(srow)
    /\ last_updated' = IF srow.exists THEN srow.updated_at ELSE last_updated
    /\ stpc' = IF ~ srow.exists THEN "ended" ELSE "poll"
    /\ UNCHANGED <<OutsideStream, srow, connected>>

\* one iteration of the loop of event_generator: break when the client is
\* gone; read the row; error and break when there is none; update when
\* updated_at changed; complete and break when the status is terminal;
\* else sleep and go round
StreamPoll ==
    /\ stpc = "poll"
    /\ IF ~ connected
       THEN /\ stpc' = "ended"
            /\ UNCHANGED <<sent, last_updated>>
       ELSE /\ sent' = sent \o Yielded(srow)
            /\ last_updated' = IF srow.exists THEN srow.updated_at
                               ELSE last_updated
            /\ stpc' = IF ~ srow.exists \/ srow.status \in Terminal
                       THEN "ended" ELSE "poll"
    /\ UNCHANGED <<OutsideStream, srow, connected>>

\* ------------------------------------------------------- the abort signal
OutsideAbort ==
    <<jobs, lock, wvars, dvars, svars, faults, appended, claimedBy, cfgvars,
      cvars, rvars, lvars, pvars, tvars, mvars, xvars>>

\* a store with one submitted job, after start() made the manager dict and
\* init_abort_state put it in the API process and in every worker child;
\* or a process in which init_abort_state was not called
AbortInit ==
    /\ jobs = [j \in Jobs |-> IF j = "j1" THEN NewRow ELSE OldRow]
    /\ InitProcesses
    /\ InitConfig
    /\ InitCluster
    /\ InitRouter
    /\ InitListing
    /\ InitEmbedded(FALSE, TRUE)
    /\ InitStream
    /\ InitMutator
    /\ InitLifespan
    /\ InitModes
    /\ aborted_jobs = {}
    /\ abort_store \in BOOLEAN

\* mark_job_aborted(job_id): _aborted_jobs[job_id] = True, or a warning
\* when the store is None
MarkJobAborted(j) ==
    /\ j \notin aborted_jobs
    /\ aborted_jobs' = IF abort_store THEN aborted_jobs \cup {j}
                       ELSE aborted_jobs
    /\ UNCHANGED <<OutsideAbort, abort_store>>

\* is_job_aborted(job_id) in a process that shares the store
IsJobAborted(j) == abort_store /\ j \in aborted_jobs

\* clear_aborted_job(job_id): _aborted_jobs.pop(job_id, None)
ClearAbortedJob(j) ==
    /\ j \in aborted_jobs
    /\ aborted_jobs' = aborted_jobs \ {j}
    /\ UNCHANGED <<OutsideAbort, abort_store>>

\* ---------------------------------------------------- writes under contention
\* the UPDATE of _set_stage, made by the stage callback, finds the write
\* lock held for longer than the busy timeout: sqlite3.OperationalError
\* "database is locked" leaves _set_stage after this one execution and
\* ends the pipeline
StageWriteLocked(w) ==
    /\ pc[w] = "run"
    /\ cbs[w] < MaxCallbacks
    /\ lock \notin {Free, w}
    /\ attempts' = [attempts EXCEPT ![w] = 1]
    /\ pc' = [pc EXCEPT ![w] = "raised"]
    /\ UNCHANGED <<jobs, lock, cur, wevents, msg, after, cbs, ret, dvars,
                   svars, faults, appended, claimedBy, cfgvars, cvars, rvars,
                   lvars, pvars, tvars, avars, xvars>>

\* except Exception as exc: error_msg = ...; then _set_stage(job_id,
\* "failed", ..., status="failed", error=error_msg)
PipelineRaised(w) ==
    /\ pc[w] = "raised"
    /\ \E len \in ErrorLens :
          SetStage(w, "failed", "job failed", "failed", len, "idle")
    /\ UNCHANGED <<lock, cur, wevents, cbs, ret, dvars, svars, faults,
                   appended, claimedBy, cfgvars, cvars, evars>>

\* ------------------------------------------------------ watch-folder ingest

\* an ingest that names the job by its uuid alone
SubmitWatchJobBare(n) ==
    /\ n \in Range(nodes)
    /\ \E uuid \in Uuids : job_id' = uuid
    /\ creator' = n
    /\ UNCHANGED <<jobs, lock, wvars, dvars, svars, faults, appended,
                   claimedBy, cfgvars, nodes, self_name, enabled, node_status,
                   last_rr_index, selected, prev_healthy, routed,
                   evars>>

\* _submit_watch_job in the watcher of node n:
\* job_id = f"{cluster.self_name}-{uuid.uuid4()}", INSERT INTO jobs on the
\* node's own store
SubmitWatchJob(n) ==
    /\ n \in Range(nodes)
    /\ \E uuid \in Uuids : job_id' = n \o <<"-">> \o uuid
    /\ creator' = n
    /\ UNCHANGED <<jobs, lock, wvars, dvars, svars, faults, appended,
                   claimedBy, cfgvars, nodes, self_name, enabled, node_status,
                   last_rr_index, selected, prev_healthy, routed,
                   evars>>

\* ------------------------------------------------- single-node deployment

\* the ids a client may ask for
JobIds == {n \o <<"-">> \o uuid : n \in NodeNames, uuid \in Uuids}

\* the node maps of a configuration file for one node; <<>> is no file, or
\* a file that is not valid
SingleNodeMaps == {<<>>} \cup [1..1 -> NodeNames]

\* load_config for the map cfg of the file and the name of the process
\* (NODE_NAME, or the file's self_name): enabled is computed from the
\* file's map, then the process is added to the map if it is not in it
LoadConfig(cfg, name) ==
    /\ self_name = name
    /\ enabled = (Len(cfg) > 1)
    /\ nodes = IF name \in Range(cfg) THEN cfg ELSE Append(cfg, name)
    /\ node_status = [n \in Range(cfg) \cup {name} |-> TRUE]

\* a process started with the configuration of a single node
SingleNodeInit ==
    /\ \E cfg \in SingleNodeMaps : \E name \in NodeNames :
          LoadConfig(cfg, name)
    /\ last_rr_index = 0
    /\ selected = <<>>
    /\ prev_healthy = <<>>
    /\ job_id = <<>>
    /\ creator = <<>>
    /\ routed = <<>>
    /\ jobs = [j \in Jobs |-> OldRow]
    /\ InitProcesses
    /\ InitIdle
    /\ InitConfig

\* a client asks node at for the job with the given id
ClientGetJobById(at, id) ==
    /\ at \in Range(nodes) \cap reachable
    /\ req.outcome # "pending"
    /\ req' = [kind |-> "job", id |-> id, owner |-> <<>>,
               entry |-> at, at |-> at, internal |-> FALSE, hops |-> 0,
               outcome |-> "pending"]
    /\ UNCHANGED <<jobs, lock, wvars, dvars, svars, faults, appended,
                   claimedBy, cfgvars, cvars, reachable, lvars, pvars, tvars,
                   avars, mvars, xvars>>

\* ------------------------------------------------- the API process start

\* a store with one submitted job and one job left in processing, before
\* the API process has started its watchdog
LifespanInit ==
    /\ jobs = [j \in Jobs |->
                  IF j = "j1" THEN NewRow ELSE LeftRow("processing")]
    /\ InitProcesses
    /\ InitIdle
    /\ stale_timeout \in StaleTimeouts
    /\ thread = [d \in Watchdogs |-> "unstarted"]
    /\ InitCluster

\* lifespan, up to its yield: configure_logging(force=True), then
\* cluster.start_health_checks(), a method ClusterConfig does not have:
\* the AttributeError leaves lifespan before init_db(),
\* _recover_stale_jobs_on_startup(), start_stale_recovery_thread() and
\* start_embedded_workers(), which come after it in this order
Lifespan ==
    /\ lpc = "startup"
    /\ lpc' = "raised"
    /\ UNCHANGED <<jobs, lock, wvars, dvars, svars, faults, appended,
                   claimedBy, cfgvars, cvars, rvars, lvars, pvars, tvars,
                   avars, mvars, mode>>

\* -------------------------------------------------------- deleting a job

\* delete_job, for an id of this node: with conn:
\* DELETE FROM jobs WHERE id = ?
DeleteJobRow(j) ==
    /\ lock = Free
    /\ jobs[j] # Gone
    /\ jobs' = [jobs EXCEPT ![j] = Gone]
    /\ UNCHANGED <<lock, wvars, dvars, svars, faults, appended, claimedBy,
                   cfgvars, cvars, evars>>

\* ------------------------------------------------------------- the clock
\* one clock tick: every row's updated_at is one tick further in the past
Tick ==
    /\ jobs' = [j \in Jobs |->
                   IF jobs[j] = Gone THEN Gone
                   ELSE [jobs[j] EXCEPT !.age =
                            IF @ > STALE_TIMEOUT_SECONDS THEN @ ELSE @ + 1]]
    /\ UNCHANGED <<lock, wvars, dvars, svars, faults, appended, claimedBy,
                   cfgvars, cvars, evars>>

\* ------------------------------------------------------ the specification
WorkerStep(w) ==
    \/ ClaimBegin(w)
    \/ ClaimSelect(w)
    \/ ClaimNoWork(w)
    \/ ClaimCommit(w)
    \/ AppendJobEventRead(w)
    \/ AppendJobEventWrite(w)
    \/ StageCallback(w)
    \/ PersistStage(w)
    \/ FailStage(w)
    \/ CompleteUpdate(w)
    \/ CompleteCommit(w)

\* two workers, the watchdog of the API process and the clock
Next ==
    \/ \E w \in Workers : WorkerStep(w)
    \/ RecoverStaleJobsRead("d1")
    \/ RecoverStaleJobsUpdate("d1")
    \/ Tick

Spec == Init /\ [][Next]_vars

\* two workers and a restart of the API process
SweepNext ==
    \/ \E w \in Workers : WorkerStep(w)
    \/ StartupSweepRead
    \/ StartupSweepUpdate

SweepSpec == Init /\ [][SweepNext]_vars

\* one worker and two API processes on one store, each with its watchdog
WatchdogNext ==
    \/ WorkerStep("w1")
    \/ \E d \in Watchdogs : RecoverStaleJobsRead(d)
    \/ \E d \in Watchdogs : RecoverStaleJobsUpdate(d)
    \/ Tick

WatchdogSpec == Init /\ [][WatchdogNext]_vars

\* two claimers racing for the only queued row
RaceNext ==
    \/ \E w \in Workers : WorkerStep(w)

RaceSpec == OneQueuedInit /\ [][RaceNext]_vars

\* a worker that may die or fail to write, the watchdog and the clock
FaultNext ==
    \/ WorkerStep("w1")
    \/ WorkerDies("w1")
    \/ TerminalWriteRaises("w1")
    \/ RecoverStaleJobsRead("d1")
    \/ RecoverStaleJobsUpdate("d1")
    \/ Tick

\* the worker loop keeps running, the watchdog loop keeps running and gets
\* the write lock in the end (busy_timeout), and time passes
LiveSpec ==
    /\ Init
    /\ [][FaultNext]_vars
    /\ WF_vars(WorkerStep("w1"))
    /\ WF_vars(RecoverStaleJobsRead("d1"))
    /\ SF_vars(RecoverStaleJobsUpdate("d1"))
    /\ WF_vars(Tick)

\* the steps of a worker whose pipeline does not raise
WorkerStepNoFailure(w) ==
    \/ ClaimBegin(w)
    \/ ClaimSelect(w)
    \/ ClaimNoWork(w)
    \/ ClaimCommit(w)
    \/ AppendJobEventRead(w)
    \/ AppendJobEventWrite(w)
    \/ StageCallback(w)
    \/ PersistStage(w)
    \/ CompleteUpdate(w)
    \/ CompleteCommit(w)

\* an abandoned job, a restart of the API process, its watchdog, the clock
\* and a worker with a non-failing pipeline
RecoverNext ==
    \/ WorkerStepNoFailure("w1")
    \/ StartupSweepRead
    \/ StartupSweepUpdate
    \/ RecoverStaleJobsRead("d1")
    \/ RecoverStaleJobsUpdate("d1")
    \/ Tick

\* the worker loop keeps running
RecoverSpec ==
    /\ AbandonedInit
    /\ [][RecoverNext]_vars
    /\ WF_vars(WorkerStepNoFailure("w1"))

\* the start of the API process with a configured timeout: the sweep, the
\* start of the watchdog thread, calls of _recover_stale_jobs, and a worker
ConfigNext ==
    \/ WorkerStep("w1")
    \/ StartupSweepRead
    \/ StartupSweepUpdate
    \/ StartStaleRecoveryThread("d1")
    \/ RecoverStaleJobsRead("d1")
    \/ RecoverStaleJobsUpdate("d1")
    \/ Tick

ConfigSpec == ConfigInit /\ [][ConfigNext]_vars

\* two workers, each of which may give up waiting for the write lock
ContentionNext ==
    \/ \E w \in Workers : WorkerStep(w)
    \/ \E w \in Workers : ClaimBusy(w)
    \/ \E w \in Workers : LoopSleep(w)

ContentionSpec == Init /\ [][ContentionNext]_vars

\* placement on one node of a cluster whose peers come and go
PlacementNext ==
    \/ \E n \in NodeNames : HealthCheck(n)
    \/ SelectRrNode

PlacementSpec == ClusterInit /\ [][PlacementNext]_vars

\* jobs made on the nodes of a cluster and requests for them on any node
RoutingNext ==
    \/ \E n \in NodeNames : CreateJob(n)
    \/ \E at \in NodeNames : MaybeProxy(at)

RoutingSpec == ClusterInit /\ [][RoutingNext]_vars

\* client requests entering a cluster whose nodes come and go
ForwardNext ==
    \/ \E n \in NodeNames : HealthCheck(n)
    \/ \E n \in NodeNames : NodeToggle(n)
    \/ \E n \in NodeNames : CreateJob(n)
    \/ \E at \in NodeNames : ClientGetJob(at)
    \/ \E at \in NodeNames : ClientCreateJob(at)
    \/ GetJob
    \/ CreateJobUrls

ForwardSpec == ClusterInit /\ [][ForwardNext]_vars

\* one call of cluster_jobs
ListingNext == ClusterJobs

ListingSpec == ListingInit /\ [][ListingNext]_vars

\* the API process starts and stops its embedded workers, which may die
EmbeddedNext ==
    \/ Start
    \/ \E pid \in DOMAIN procs : Kill(pid)
    \/ \E t \in Threads : MonitorStep(t)
    \/ ShutdownSet
    \/ ShutdownJoin
    \/ ShutdownTerminate
    \/ ShutdownReap
    \/ ShutdownClear

EmbeddedSpec == EmbeddedInit /\ [][EmbeddedNext]_vars

\* a process that starts its embedded workers, which may die, and does
\* not shut them down
SuperviseNext ==
    \/ Start
    \/ \E pid \in DOMAIN procs : Kill(pid)
    \/ \E t \in Threads : MonitorStep(t)

\* the monitor thread keeps running
SuperviseSpec ==
    /\ EmbeddedInit
    /\ [][SuperviseNext]_vars
    /\ \A t \in Threads : WF_vars(MonitorStep(t))

\* one stream of one job, the writers of its row and the client
StreamNext ==
    \/ \E status \in Statuses : \E seconds \in {0, 1} :
          RowWrite(status, seconds)
    \/ DeleteJob
    \/ Disconnect
    \/ StreamPoll

StreamSpec == StreamInit /\ [][StreamNext]_vars

\* a worker on a job that the API process may mark as aborted
AbortNext ==
    \/ WorkerStep("w1")
    \/ \E j \in Jobs : MarkJobAborted(j)
    \/ \E j \in Jobs : ClearAbortedJob(j)

AbortSpec == AbortInit /\ [][AbortNext]_vars

\* two workers whose stage writes may find the store locked
LockedNext ==
    \/ \E w \in Workers : WorkerStep(w)
    \/ \E w \in Workers : StageWriteLocked(w)
    \/ \E w \in Workers : PipelineRaised(w)

LockedSpec == Init /\ [][LockedNext]_vars

\* submissions placed by any node of a cluster, and the watch-folder ingest
IngestNext ==
    \/ \E n \in NodeNames : HealthCheck(n)
    \/ \E n \in NodeNames : NodeToggle(n)
    \/ \E at \in NodeNames : ClientCreateJob(at)
    \/ CreateJobUrls
    \/ \E n \in NodeNames : SubmitWatchJob(n)

IngestSpec == ClusterInit /\ [][IngestNext]_vars

\* the one process of a single-node deployment and its clients
SingleNext ==
    \/ \E n \in NodeNames : NodeToggle(n)
    \/ SelectRrNode
    \/ ClientCreateJob(self_name)
    \/ CreateJobUrls
    \/ \E id \in JobIds : ClientGetJobById(self_name, id)
    \/ GetJob

SingleSpec == SingleNodeInit /\ [][SingleNext]_vars

\* the API process starts beside the workers of a worker process that
\* share its store
LifespanNext ==
    \/ Lifespan
    \/ \E w \in Workers : WorkerStep(w)

LifespanSpec == LifespanInit /\ [][LifespanNext]_vars

\* two workers and two submitted jobs
PairSpec == TwoQueuedInit /\ [][RaceNext]_vars

\* two workers on jobs of every mode a submission may name
ModeNext ==
    \/ \E w \in Workers : WorkerStep(w)
    \/ \E w \in Workers : RaiseUnknownMode(w)

ModeSpec == ModeInit /\ [][ModeNext]_vars

\* a worker, the watchdog, a restart of the API process, the clock, and a
\* client that deletes jobs
DeleteNext ==
    \/ WorkerStep("w1")
    \/ RecoverStaleJobsRead("d1")
    \/ RecoverStaleJobsUpdate("d1")
    \/ StartupSweepRead
    \/ StartupSweepUpdate
    \/ \E j \in Jobs : DeleteJobRow(j)
    \/ Tick

DeleteSpec == Init /\ [][DeleteNext]_vars

\* ------------------------------------------------------------ properties
Status(j) == jobs[j].status

\* the worker has claimed job j and has not yet written its terminal outcome
Holds(w, j) ==
    /\ cur[w] = j
    /\ pc[w] \in {"ev_read", "ev_write", "run", "complete", "complete_ev"}
    /\ ~ (pc[w] \in {"ev_read", "ev_write"} /\ after[w] = "idle")

\* this step is the update transaction of a watchdog pass / of the sweep
WatchdogUpdateStep(d) == dpc[d] = "update" /\ dpc'[d] = "idle"
SweepUpdateStep == spc = "update" /\ spc' = "idle"

\* C1: in every reachable state, at most one worker holds a given job in
\* processing (claimed it and has not yet written its terminal outcome).
AtMostOneHolder ==
    \A j \in Jobs : Cardinality({w \in Workers : Holds(w, j)}) <= 1

\* C2: once a job's status is completed or failed, no later step changes it.
TerminalIsFinal ==
    [][\A j \in Jobs :
          Status(j) \in Terminal => jobs'[j].status = Status(j)]_vars

AllowedSteps ==
    {<<"queued", "processing">>, <<"processing", "completed">>,
     <<"processing", "failed">>, <<"processing", "queued">>,
     <<"processing", "re-queued">>}

\* C3: every change of a row's status is queued -> processing,
\* processing -> completed, processing -> failed, processing -> queued or
\* processing -> re-queued, and the last two are steps of the startup sweep
\* or of the watchdog only.
StatusSteps ==
    [][\A j \in Jobs :
          jobs'[j].status # Status(j) =>
             /\ <<Status(j), jobs'[j].status>> \in AllowedSteps
             /\ jobs'[j].status \in {"queued", "re-queued"} =>
                   \/ SweepUpdateStep
                   \/ \E d \in Watchdogs : WatchdogUpdateStep(d)]_vars

\* C4: of two claimers racing for the only queued row, exactly one moves it
\* to processing; the other finds no queued row and returns False.
ExactlyOneClaims ==
    /\ \A j \in Jobs : Cardinality(claimedBy[j]) <= 1
    /\ Cardinality({j \in Jobs : claimedBy[j] # {}}) <= 1
    /\ \A w \in Workers :
          (ret[w] # "none" /\ \A j \in Jobs : w \notin claimedBy[j])
             => ret[w] = "False"
    /\ (\E w \in Workers : ret[w] = "False") =>
          /\ \E j \in Jobs : claimedBy[j] # {}
          /\ \A j \in Jobs : Status(j) # "queued"

\* one claimer holds the row, the other has returned False
RaceDecided ==
    \E w \in Workers : \E v \in Workers \ {w} :
       /\ \E j \in Jobs : claimedBy[j] = {w} /\ Status(j) = "processing"
       /\ ret[v] = "False"

\* C5: under fairness of the worker loop, the watchdog and the clock, every
\* queued job eventually reaches completed or failed, also when the worker
\* dies after the claim or its terminal write raises.
NoJobLost ==
    \A j \in Jobs : (Status(j) = "queued") ~> (Status(j) \in Terminal)

\* a job whose worker was lost, that the watchdog recovered, is completed
RecoveredJobDone ==
    \E j \in Jobs :
       /\ faults > 0
       /\ Status(j) = "completed"
       /\ \E i \in 1..Len(jobs[j].events) :
             jobs[j].events[i] = Event("recovery", WatchdogDetail)

\* C6: no append is dropped: while fewer messages than the window (400 in
\* the code) were appended to a row, its events list holds one entry for
\* each of them.
NoEventDropped ==
    \A j \in Jobs :
       appended[j] < MaxEvents => Len(jobs[j].events) = appended[j]

\* C7: the update of a watchdog pass sets every candidate that is processing
\* and stale to status re-queued, stage re-queued and the watchdog's stage
\* detail, and the pass returns the number of rows it reset.
WatchdogPassRequeues ==
    [][\A d \in Watchdogs :
          WatchdogUpdateStep(d) =>
             LET stale == {j \in cand[d] :
                              Status(j) = "processing" /\ Stale(jobs[j])}
             IN  /\ \A j \in stale :
                       /\ jobs'[j].status = "re-queued"
                       /\ jobs'[j].stage = "re-queued"
                       /\ jobs'[j].detail = WatchdogDetail
                 /\ dret'[d] = Cardinality(stale)]_vars

\* C8: a watchdog pass appends exactly one recovery event to every job it
\* resets and none to any other job, also when another watchdog pass or a
\* worker write interleaves with it.
OneRecoveryEventPerReset ==
    [][\A d \in Watchdogs :
          WatchdogUpdateStep(d) =>
             \A j \in Jobs :
                appended'[j] - appended[j] =
                   IF j \in cand[d] /\ Status(j) = "processing"
                      /\ Stale(jobs[j])
                   THEN 1 ELSE 0]_vars

\* C9: a watchdog pass leaves every row unchanged that is not both
\* processing and stale.
WatchdogFrame ==
    [][\A d \in Watchdogs :
          WatchdogUpdateStep(d) =>
             \A j \in Jobs :
                ~ (Status(j) = "processing" /\ Stale(jobs[j]))
                   => jobs'[j] = jobs[j]]_vars

\* C10: neither recovery mechanism resets a job whose terminal outcome was
\* written between the recovery's candidate read and its update.
RecoveryRechecksStatus ==
    [][(SweepUpdateStep \/ \E d \in Watchdogs : WatchdogUpdateStep(d)) =>
          \A j \in Jobs :
             Status(j) \in Terminal => jobs'[j].status = Status(j)]_vars

\* the row is as a recovery left it: no claim has overwritten its detail
WasReset(j) == jobs[j].detail \in {WatchdogDetail, RestartDetail}

\* no worker is running the job
Unheld(j) == \A w \in Workers : ~ Holds(w, j)

SweepResetsProcessing ==
    [][SweepUpdateStep =>
          /\ \A j \in Jobs :
                IF Status(j) = "processing"
                THEN /\ jobs'[j].status = "queued"
                     /\ jobs'[j].stage = "queued"
                     /\ jobs'[j].detail = RestartDetail
                     /\ appended'[j] = appended[j] + 1
                     /\ jobs'[j].events =
                           Bounded(Append(jobs[j].events,
                                          Event("recovery", RestartEvent)))
                ELSE jobs'[j] = jobs[j]
          /\ sret' = Cardinality({j \in Jobs : Status(j) = "processing"})]_vars

\* C13: with a stale timeout of zero or less the watchdog is disabled:
\* start_stale_recovery_thread starts no thread and returns None,
\* _recover_stale_jobs changes no row and returns 0, and the startup sweep
\* still resets the processing rows.
WatchdogDisabled ==
    [][stale_timeout <= 0 =>
          /\ \A d \in Watchdogs :
                /\ thread'[d] \in {"unstarted", "None"}
                /\ dpc'[d] = "idle"
                /\ dret'[d] \in {NoReturn, 0}
                /\ dret'[d] # dret[d] => jobs' = jobs
          /\ SweepUpdateStep =>
                /\ sret' = Cardinality(scand)
                /\ \A j \in scand :
                      /\ jobs'[j].status = "queued"
                      /\ jobs'[j].detail = RestartDetail]_vars

\* the watchdog is disabled and has returned 0, the sweep has reset a row
DisabledAndSwept ==
    /\ stale_timeout <= 0
    /\ thread["d1"] = "None"
    /\ dret["d1"] = 0
    /\ sret = 1
    /\ \E j \in Jobs : Status(j) = "queued" /\ jobs[j].detail = RestartDetail

\* this step is the return of a call of claim_and_process_job by w
ReturnStep(w) ==
    pc[w] # "idle" /\ pc'[w] = "idle" /\ ret'[w] \in {"True", "False"}

\* the call of w has committed its claim
Claimed(w) == pc[w] \notin {"idle", "select", "update"}

\* C14: claim_and_process_job returns True only if it claimed a job whose
\* row holds completed or failed when the call returns, and returns False
\* only if the call claimed no job.
ReturnValueContract ==
    [][\A w \in Workers :
          ReturnStep(w) =>
             /\ ret'[w] = "True" =>
                   Claimed(w) /\ jobs'[cur[w]].status \in Terminal
             /\ ret'[w] = "False" => ~ Claimed(w)]_vars

\* C15: a claim_and_process_job that cannot get the exclusive transaction
\* returns False to the worker loop, raises nothing and changes no row, and
\* the loop goes on to its next iteration.
ContentionReturnsFalse ==
    [][\A w \in Workers :
          /\ (pc[w] = "idle" /\ pc'[w] = "sleep") =>
                /\ ret'[w] = "False"
                /\ jobs' = jobs
                /\ lock' = lock
          /\ (pc[w] = "sleep" /\ pc'[w] # "sleep") => pc'[w] = "idle"]_vars

\* a worker gave up on the lock another worker holds, with a job queued
ContentionSeen ==
    \E w \in Workers :
       /\ pc[w] = "sleep"
       /\ ret[w] = "False"
       /\ lock \notin {Free, w}
       /\ \E j \in Jobs : Status(j) = "queued"

\* this step is the write of w's _set_stage(job_id, "failed", ...) to row j
FailStep(w, j) ==
    pc[w] = "run" /\ cur[w] = j /\ pc'[w] = "ev_read" /\ after'[w] = "idle"

\* C16: when the pipeline raises, the job gets status failed, stage failed
\* and a non-empty error of at most 4096 characters; a failed job keeps
\* that, is not set back to queued and is not claimed again; the worker
\* returns to its loop.
PipelineFailureIsFinal ==
    [][\A j \in Jobs :
          /\ \A w \in Workers :
                FailStep(w, j) =>
                   /\ jobs'[j].status = "failed"
                   /\ jobs'[j].stage = "failed"
                   /\ jobs'[j].error \in 1..ERROR_CAP
          /\ Status(j) = "failed" =>
                /\ jobs'[j].status = "failed"
                /\ jobs'[j].stage = "failed"
                /\ jobs'[j].error = jobs[j].error
                /\ claimedBy'[j] = claimedBy[j]
          /\ \A w \in Workers :
                (pc[w] = "ev_write" /\ after[w] = "idle" /\ pc'[w] # pc[w])
                   => pc'[w] = "idle" /\ ret'[w] = "True"]_vars

\* C17: the worker writes status completed together with stage completed
\* and progress 100, in one update, and every row with status completed has
\* stage completed and progress 100.
CompletedRowShape ==
    [][\A j \in Jobs :
          /\ Status(j) = "completed" =>
                jobs[j].stage = "completed" /\ jobs[j].progress = 100
          /\ jobs'[j].status = "completed" =>
                jobs'[j].stage = "completed" /\ jobs'[j].progress = 100]_vars

\* the event lines of a pipeline-mode job, in their order
Trail == <<"ingest", "frame_extract", "ocr", "llm", "persist", "completed">>

TrailPos(stage) == CHOOSE i \in 1..Len(Trail) : Trail[i] = stage

\* lines of the trail only, each at most once, in the trail's order, from
\* ingest to completed
OnTrail(evs) ==
    /\ evs # <<>>
    /\ \A i \in 1..Len(evs) : \E k \in 1..Len(Trail) : Trail[k] = evs[i][1]
    /\ evs[1][1] = "ingest"
    /\ evs[Len(evs)][1] = "completed"
    /\ \A i \in 1..Len(evs) : \A k \in 1..Len(evs) :
          i < k => TrailPos(evs[i][1]) < TrailPos(evs[k][1])

\* C18: for a job run without failure or recovery: right after the claim
\* the row is processing with stage ingest, and when it is completed its
\* events are one line per stage transition, in the order ingest,
\* frame_extract, ocr, llm, persist, completed.
PipelineEventTrail ==
    /\ \A w \in Workers :
          (Claimed(w) /\ cbs[w] = 0) =>
             /\ jobs[cur[w]].status = "processing"
             /\ jobs[cur[w]].stage = "ingest"
    /\ \A j \in Jobs :
          (Status(j) = "completed" /\ claimedBy[j] # {})
             => OnTrail(jobs[j].events)

\* this step is a placement
PlaceStep ==
    \/ selected' # selected
    \/ last_rr_index' # last_rr_index
    \/ prev_healthy' # prev_healthy

\* the node after n in the list, going round
NextInList(list, n) ==
    LET i == CHOOSE k \in 1..Len(list) : list[k] = n
    IN  list[(i % Len(list)) + 1]

\* C19: placement returns a node that is currently healthy, goes through
\* the healthy nodes in round-robin order while the healthy set does not
\* change, and raises the no-healthy-nodes condition when no node is
\* healthy; a node that is down is never selected.
PlacementRoundRobin ==
    [][PlaceStep =>
          LET healthy == GetHealthyNodes
          IN  /\ healthy = <<>> => selected' = Unavailable
              /\ healthy # <<>> =>
                    /\ selected' \in Range(healthy)
                    /\ node_status[selected']
                    /\ (prev_healthy = healthy /\ selected \in Range(healthy))
                          => selected' = NextInList(healthy, selected)]_vars

\* three nodes, one of them down, and a second placement in a row among
\* the two healthy ones
PlacedAmongTwo ==
    /\ Len(nodes) = 3
    /\ Len(GetHealthyNodes) = 2
    /\ prev_healthy = GetHealthyNodes
    /\ selected \in Range(GetHealthyNodes)
    /\ selected # self_name

\* C20: for every job id made by a node of the map, routing on any node
\* finds that node as the owner: another node forwards to it and to no
\* other node, the owner serves the request itself.
RoutedToOwner ==
    (routed # <<>> /\ routed[3] = job_id) => routed[2] = creator


AnswerStep == req.outcome = "pending" /\ req'.outcome # "pending"

\* C22: a request for a job of another node whose owner does not answer
\* ends as service-unavailable and leaves every job row as it was.
UnreachableOwnerIs503 ==
    [][AnswerStep /\ req.kind = "job" /\ req.owner # req.entry
          /\ req.owner \notin reachable
       => req'.outcome = "503" /\ jobs' = jobs]_vars


\* C23: the listing holds each job id once, with an entry of the aggregate
\* whose updated_at no other entry of that id exceeds; every non-empty id
\* of the aggregate is listed; the order is created_at descending.
ListingDeduped ==
    listed.made =>
       /\ \A i \in 1..Len(listed.jobs) : \A k \in 1..Len(listed.jobs) :
             i # k => listed.jobs[i].job_id # listed.jobs[k].job_id
       /\ \A i \in 1..Len(listed.jobs) :
             /\ listed.jobs[i] \in Range(aggr)
             /\ listed.jobs[i].job_id # <<>>
       /\ \A i \in 1..Len(aggr) :
             aggr[i].job_id # <<>> =>
                \E k \in 1..Len(listed.jobs) :
                   /\ listed.jobs[k].job_id = aggr[i].job_id
                   /\ ~ StrGreater(aggr[i].updated_at,
                                   listed.jobs[k].updated_at)
       /\ \A i \in 1..Len(listed.jobs) : \A k \in 1..Len(listed.jobs) :
             i < k => ~ StrGreater(listed.jobs[k].created_at,
                                   listed.jobs[i].created_at)

\* an id answered by two nodes, the later answer older than the first, and
\* a second id created later
ListedNewestOfTwo ==
    /\ listed.made
    /\ Len(aggr) = 3
    /\ Len(listed.jobs) = 2
    /\ aggr[1].job_id = aggr[3].job_id
    /\ StrGreater(aggr[1].updated_at, aggr[3].updated_at)
    /\ listed.jobs[2] = aggr[1]
    /\ StrGreater(listed.jobs[1].created_at, listed.jobs[2].created_at)


\* every configured worker process is supervised and alive
AllAlive ==
    /\ Len(children) = ProcessCount
    /\ \A i \in 1..Len(children) : Alive(children[i])

\* C24: after a start with N processes, whenever some of them were killed
\* the monitor brings the supervisor back to N alive processes.
SupervisorConverges == (children # <<>> /\ ~ AllAlive) ~> AllAlive

\* a killed process was replaced: N alive processes, one of them new
KilledAndReplaced ==
    /\ AllAlive
    /\ kills > 0
    /\ Len(procs) > ProcessCount

\* C25: start() called while supervised processes exist spawns nothing,
\* starts no monitor thread, leaves _children as it is and returns the
\* number of children alive.
StartIsIdempotent ==
    [][starts' = starts + 1 /\ ~ is_child /\ embed_workers /\ children # <<>>
       => /\ procs' = procs
          /\ children' = children
          /\ tpc' = tpc
          /\ monitor_thread' = monitor_thread
          /\ start_ret' = AliveCount(children)]_vars

\* a second start() that found one of the two children dead
StartedAgainOneAlive ==
    /\ starts = 2
    /\ Len(children) = ProcessCount
    /\ start_ret = 1

\* C26: shutdown() returns only when no process spawned by the supervisor
\* is alive and _children is empty.
ShutdownReapsAll ==
    [][sdpc = "clear" /\ sdpc' = "idle"
       => /\ children' = <<>>
          /\ \A pid \in DOMAIN procs' : procs'[pid] # "alive"]_vars

\* C27: in a spawned child, or with embedded workers disabled, start()
\* spawns nothing, starts no monitor, leaves _children empty and returns 0.
StartRefusesInChild ==
    is_child \/ ~ embed_workers
       => /\ procs = <<>>
          /\ children = <<>>
          /\ monitor_thread = NoThread
          /\ \A t \in Threads : tpc[t] = "unborn"
          /\ start_ret \in {NoReturn, 0}

\* start() returned 0 in a spawned child
StartedInChild ==
    /\ is_child
    /\ embed_workers
    /\ starts > 0
    /\ start_ret = 0


\* the last event is complete or error
Closed(evs) == evs # <<>> /\ evs[Len(evs)].event \in {"complete", "error"}

\* the events sent so far: complete and error only as the last event, and
\* then the stream has ended; complete only for a terminal status; updates
\* only for an updated_at other than the one sent before
StreamShape ==
    /\ \A i \in 1..Len(sent) :
          /\ sent[i].event \in {"complete", "error"} => i = Len(sent)
          /\ sent[i].event = "complete" => sent[i].status \in Terminal
    /\ Closed(sent) => stpc = "ended"
    /\ stpc = "ended" /\ connected => Closed(sent)
    /\ \A i \in 1..Len(sent) : \A k \in 1..Len(sent) :
          /\ i < k
          /\ sent[i].event = "update"
          /\ sent[k].event = "update"
          /\ \A m \in (i + 1)..(k - 1) : sent[m].event # "update"
          => sent[i].updated_at # sent[k].updated_at

\* an iteration that reads a row: an update follows when updated_at is not
\* the one sent last, a complete follows when the status is terminal, an
\* error when there is no row
PollEmits ==
    stpc = "poll" /\ connected /\ (sent' # sent \/ stpc' # stpc)
       => LET new == SubSeq(sent', Len(sent) + 1, Len(sent'))
              names == [i \in 1..Len(new) |-> new[i].event]
          IN  /\ ~ srow.exists => names = <<"error">>
              /\ srow.exists =>
                    /\ (srow.updated_at # last_updated)
                          <=> (names # <<>> /\ names[1] = "update")
                    /\ (srow.status \in Terminal)
                          <=> (names # <<>>
                               /\ names[Len(names)] = "complete")

\* C28: the stream sends an update whenever it reads an updated_at other
\* than the last one sent, one complete event when it reads a terminal
\* status, one error event when there is no row, and nothing after a
\* complete or an error.
StreamContract == [] StreamShape /\ [][PollEmits]_vars

\* two updates for two writes, then the update and the complete of the
\* terminal row, and the stream has ended
StreamedToComplete ==
    /\ Len(sent) = 4
    /\ sent[1].event = "update"
    /\ sent[2].event = "update"
    /\ sent[3].event = "update"
    /\ sent[4].event = "complete"
    /\ stpc = "ended"


\* C29: a worker whose job is marked in the shared abort store, where
\* is_job_aborted is true from the mark to the clear, starts no further
\* stage of the pipeline.
AbortStopsPipeline ==
    [][\A w \in Workers :
          pc[w] = "run" /\ IsJobAborted(cur[w]) => cbs'[w] = cbs[w]]_vars

\* C30: a worker's write that finds the store locked is tried again: the
\* contention error leaves the write only after more than one execution.
LockedWriteRetried ==
    [][\A w \in Workers :
          pc[w] # "raised" /\ pc'[w] = "raised" => attempts'[w] > 1]_vars

\* C31: an append to a row's events list leaves at most the window (400 in
\* the code) of entries: the row's list before the append, in its order,
\* with the appended message as the last entry, less the oldest entry when
\* the list was full. It holds for the worker's appends and for the
\* recovery appends.
AppendKeepsWindow ==
    [][\A j \in Jobs :
          appended'[j] = appended[j] + 1 =>
             LET new == jobs'[j].events
             IN  /\ Len(new) > 0
                 /\ Len(new) <= MaxEvents
                 /\ new = Bounded(Append(jobs[j].events, new[Len(new)]))]_vars

\* C32: the id of every job is the name of the node whose store holds its
\* row, "-" and a uuid, also for a submission that placement forwarded from
\* the node that received it, and for a job of the watch-folder ingest.
JobIdNamesItsStore ==
    job_id # <<>> => \E uuid \in Uuids : job_id = creator \o <<"-">> \o uuid

\* a submission received by one node and created on another
ForwardedAndCreated ==
    /\ req.kind = "new"
    /\ req.outcome = "local"
    /\ req.entry # req.at
    /\ req.internal
    /\ \E uuid \in Uuids : job_id = req.at \o <<"-">> \o uuid

\* C33: a deployment with a node map of one entry, or with no cluster
\* configuration, never forwards: placement returns the local node, and no
\* request for a job, whatever its id, leaves the node it arrived at.
SingleNodeNeverForwards ==
    /\ selected \in {<<>>, self_name}
    /\ req.hops = 0
    /\ req.outcome # "503"
    /\ req.at = req.entry

\* C34: each start of the API process runs the startup sweep once, and the
\* sweep is over before the process starts its watchdog thread or an
\* embedded worker.
SweepsOnceBeforeWork ==
    LET swept == sweeps = 1 /\ spc = "idle"
    IN  /\ lpc # "startup" => swept
        /\ thread["d1"] # "unstarted" => swept
        /\ children # <<>> => swept

\* C35: a worker holds the store's write lock only between the BEGIN
\* EXCLUSIVE of its claim and the commit or rollback that ends the claim
\* and, after its pipeline has returned, for its terminal write; it never
\* holds it while its pipeline runs, so that another worker can claim a
\* different queued row in that time.
LockOnlyAroundClaim ==
    \A w \in Workers :
       /\ lock = w => pc[w] \in {"select", "update", "complete_ev"}
       /\ pc[w] \in {"run", "ev_read", "ev_write"} => lock # w

\* two workers run the pipelines of two different jobs at the same time
TwoInProcessing ==
    /\ pc["w1"] = "run"
    /\ pc["w2"] = "run"
    /\ cur["w1"] # cur["w2"]
    /\ jobs[cur["w1"]].status = "processing"
    /\ jobs[cur["w2"]].status = "processing"
    /\ cbs["w1"] = 1
    /\ lock = Free

\* C36: a stage callback (stage, detail) leaves the job's row with status
\* processing, the given stage and detail and a fresh updated_at, and the
\* append that follows it, before the next callback, puts the event line
\* of that stage and detail at the end of the row's events.
StageCallbackWrites ==
    [][\A w \in Workers :
          /\ pc[w] = "run" /\ cbs'[w] = cbs[w] + 1 =>
                LET row == jobs'[cur[w]]
                IN  /\ row.status = "processing"
                    /\ row.stage = StageOrder[cbs'[w]]
                    /\ row.detail = "progress"
                    /\ row.age = 0
                    /\ msg'[w] = Event(row.stage, row.detail)
                    /\ pc'[w] = "ev_read"
          /\ pc[w] = "ev_write" /\ pc'[w] = "run" /\ cbs[w] >= 1 =>
                LET evs == jobs'[cur[w]].events
                IN  /\ Len(evs) > 0
                    /\ evs[Len(evs)] = Event(StageOrder[cbs[w]], "progress")
       ]_vars

\* C37: while processes are supervised there are exactly N slots; a slot
\* changes only when its process is dead, to one newly spawned process,
\* with every other slot as it was; every process spawned then takes a
\* slot.
SlotsReplacedInPlace ==
    /\ [](children # <<>> => Len(children) = ProcessCount)
    /\ [][children # <<>> /\ children' # <<>> =>
             /\ children' # children =>
                   \E i \in 1..Len(children) :
                      /\ ~ Alive(children[i])
                      /\ procs' = Append(procs, "alive")
                      /\ children' = [children EXCEPT ![i] = Len(procs')]
             /\ Len(procs') > Len(procs) => children' # children]_vars

\* C38: a claimed job whose mode is one of the modes a submission may name
\* (pipeline, agent, benchmark) is given to a stage pipeline: a job fails
\* with the unknown-mode error, no stage having run, only when its mode is
\* none of them.
AcceptedModesDispatched ==
    [][\A w \in Workers :
          /\ pc[w] = "run"
          /\ cbs[w] = 0
          /\ jobs'[cur[w]].status = "failed"
          => mode[cur[w]] \notin JobMode]_vars

\* C39: once shutdown() has set the stop signal the monitor starts no
\* process, and the processes shutdown() terminates include every process
\* the monitor started.
NoSpawnAfterStop ==
    /\ [][shutdown_event /\ starts' = starts =>
             Len(procs') = Len(procs)]_vars
    /\ [](sdpc = "reap" =>
             \A pid \in 1..Len(procs) :
                Alive(pid) => \E i \in 1..Len(children) : children[i] = pid)

\* C40: once delete_job has removed the row of an id, no operation of a
\* worker that had claimed the job, of the watchdog or of the startup sweep
\* makes a row with that id again; a worker's write for the removed id
\* changes no row, and a recovery update changes no row outside its
\* candidates.
DeleteIsFinal ==
    /\ [][\A j \in Jobs : jobs[j] = Gone => jobs'[j] = Gone]_vars
    /\ [][\A w \in Workers :
             /\ cur[w] # NoJob
             /\ jobs[cur[w]] = Gone
             /\ pc'[w] # pc[w]
             => jobs' = jobs]_vars
    /\ [][\A d \in Watchdogs :
             dpc[d] = "update" /\ dpc'[d] = "idle" =>
                \A j \in Jobs \ cand[d] : jobs'[j] = jobs[j]]_vars
    /\ [][spc = "update" /\ spc' = "idle" =>
             \A j \in Jobs \ scand : jobs'[j] = jobs[j]]_vars

\* the worker that had claimed j1 has finished it after the row was deleted
FinishedDeletedJob ==
    /\ jobs["j1"] = Gone
    /\ "w1" \in claimedBy["j1"]
    /\ pc["w1"] = "idle"
    /\ ret["w1"] = "True"
    /\ appended["j1"] >= 3

====
